---- MODULE Spec2Model ----
(***************************************************************************)
(* redis_ts: the argument encoders (ToRedisArgs) of the builder types and  *)
(* the reply decoders (FromRedisValue) of the result types.                *)
(*                                                                         *)
(* A wire token is a string.  Option<T> is a sequence of length 0 (None)   *)
(* or 1 (Some(v)).  A reply Value is a record tagged by its variant.       *)
(***************************************************************************)
EXTENDS Integers, Sequences, FiniteSets, TLC

VARIABLES
    target,    \* what the caller works on: "opts", "labels", "query", "filter", "decode"
    pc,        \* position of the caller: "build", "encoded", "replied", "decoded"
    out,       \* the token sequence (RedisWrite sink) the encoders append to
    opts,      \* the TsOptions being built
    optCalls,  \* history: the TsOptions builder calls made so far, in order
    query,     \* the TsRangeQuery being built
    qCalls,    \* history: the TsRangeQuery builder calls made so far, in order
    fopts,     \* the TsFilterOptions being built
    fCalls,    \* history: the TsFilterOptions builder calls made so far, in order
    reply,     \* the reply Value handed to a decoder
    result,    \* what the decoder returned
    call       \* history: the command or builder call made, with its arguments

vars == <<target, pc, out, opts, optCalls, query, qCalls, fopts, fCalls, reply, result, call>>

\* ---------------------------------------------------------------- bounds

MaxOptCalls == 5
MaxQCalls == 3
MaxFCalls == 3
MaxLabelCalls == 5
MaxSamples == 3
MaxElements == 2
MaxEntries == 2
MaxArgs == 2
MaxMutations == 2

\* ------------------------------------------------------- Option and helpers

None == <<>>
Some(v) == <<v>>
IsSome(o) == Len(o) = 1
Unwrap(o) == o[1]

RECURSIVE Flatten(_)
Flatten(ss) == IF ss = <<>> THEN <<>> ELSE Head(ss) \o Flatten(Tail(ss))

\* ------------------------------------------------- the scalar token encoder

Digit == <<"0", "1", "2", "3", "4", "5", "6", "7", "8", "9">>

\* Decimal text of a non-negative integer (itoa / format!("{}")).
RECURSIVE DecNat(_)
DecNat(n) == IF n < 10 THEN Digit[n + 1] ELSE DecNat(n \div 10) \o Digit[(n % 10) + 1]

\* Decimal text of a signed integer: a '-' sign only on negative values.
Dec(n) == IF n < 0 THEN "-" \o DecNat(0 - n) ELSE DecNat(n)

\* An f64 with one fractional digit is carried as its value in tenths; the
\* redis crate writes the shortest round-trip text, which keeps ".0".
FmtF64(t) ==
    IF t < 0 THEN "-" \o DecNat((0 - t) \div 10) \o "." \o DecNat((0 - t) % 10)
    ELSE DecNat(t \div 10) \o "." \o DecNat(t % 10)

\* ------------------------------------------------------- TsDuplicatePolicy

Policy(tag, s) == [tag |-> tag, s |-> s]
Block == Policy("Block", "")
First == Policy("First", "")
Last == Policy("Last", "")
Min == Policy("Min", "")
Max == Policy("Max", "")
Other(s) == Policy("Other", s)

\* An encoder that writes the names in the spelling the decoder matches.
TsDuplicatePolicy_name_as_decoded(p) ==
    CASE p.tag = "Block" -> "block"
      [] p.tag = "First" -> "first"
      [] p.tag = "Last" -> "last"
      [] p.tag = "Min" -> "min"
      [] p.tag = "Max" -> "max"
      [] OTHER -> p.s

TsDuplicatePolicy_name(p) ==
    CASE p.tag = "Block" -> "BLOCK"
      [] p.tag = "First" -> "FIRST"
      [] p.tag = "Last" -> "LAST"
      [] p.tag = "Min" -> "MIN"
      [] p.tag = "Max" -> "MAX"
      [] OTHER -> p.s

\* An encoder that starts the token sequence anew.
TsDuplicatePolicy_write_redis_args_overwriting(p, o) ==
    <<"DUPLICATE_POLICY", TsDuplicatePolicy_name(p)>>

TsDuplicatePolicy_write_redis_args(p, o) ==
    o \o <<"DUPLICATE_POLICY", TsDuplicatePolicy_name(p)>>

\* ---------------------------------------------------------------- TsOptions

TsOptions_default ==
    [retention_time |-> None, uncompressed |-> FALSE, labels |-> None,
     duplicate_policy |-> None, chunk_size |-> None]

\* to_redis_args of a Vec<(&str, &str)>: every pair writes its name, then its value.
PairsToArgs(pairs) == Flatten([i \in 1..Len(pairs) |-> <<pairs[i][1], pairs[i][2]>>])

TsOptions_retention_time(self, time) == [self EXCEPT !.retention_time = Some(time)]

TsOptions_uncompressed(self, value) == [self EXCEPT !.uncompressed = value]

\* A labels that adds to the labels already present.
TsOptions_labels_appending(self, labels) ==
    IF labels # <<>>
    THEN [self EXCEPT !.labels =
             Some((IF IsSome(self.labels) THEN Unwrap(self.labels) ELSE <<>>)
                     \o PairsToArgs(labels))]
    ELSE [self EXCEPT !.labels = None]

TsOptions_labels(self, labels) ==
    IF labels # <<>> THEN [self EXCEPT !.labels = Some(PairsToArgs(labels))]
    ELSE [self EXCEPT !.labels = None]

\* A label that keeps one value per name: a repeated name replaces its value.
TsOptions_label_by_name(self, name, value) ==
    LET cur == IF IsSome(self.labels) THEN Unwrap(self.labels) ELSE <<>>
        at == {i \in 1..(Len(cur) \div 2) : cur[2 * i - 1] = name}
    IN IF at = {} THEN [self EXCEPT !.labels = Some(cur \o <<name, value>>)]
       ELSE [self EXCEPT !.labels =
                Some([j \in 1..Len(cur) |->
                        IF j % 2 = 0 /\ (j \div 2) \in at THEN value ELSE cur[j]])]

TsOptions_label(self, name, value) ==
    LET l == PairsToArgs(<<<<name, value>>>>)
        res == IF IsSome(self.labels) THEN Unwrap(self.labels) ELSE <<>>
    IN [self EXCEPT !.labels = Some(res \o l)]

TsOptions_duplicate_policy(self, policy) == [self EXCEPT !.duplicate_policy = Some(policy)]

TsOptions_chunk_size(self, size) == [self EXCEPT !.chunk_size = Some(size)]

\* An encoder that writes CHUNK_SIZE before DUPLICATE_POLICY.
TsOptions_write_redis_args_chunk_first(self, o) ==
    LET o1 == IF IsSome(self.retention_time)
              THEN o \o <<"RETENTION", Dec(Unwrap(self.retention_time))>> ELSE o
        o2 == IF self.uncompressed THEN o1 \o <<"UNCOMPRESSED">> ELSE o1
        o3 == IF IsSome(self.chunk_size)
              THEN o2 \o <<"CHUNK_SIZE", Dec(Unwrap(self.chunk_size))>> ELSE o2
        o4 == IF IsSome(self.duplicate_policy)
              THEN TsDuplicatePolicy_write_redis_args(Unwrap(self.duplicate_policy), o3)
              ELSE o3
        o5 == IF IsSome(self.labels) THEN (o4 \o <<"LABELS">>) \o Unwrap(self.labels) ELSE o4
    IN o5

TsOptions_write_redis_args(self, o) ==
    LET o1 == IF IsSome(self.retention_time)
              THEN o \o <<"RETENTION", Dec(Unwrap(self.retention_time))>> ELSE o
        o2 == IF self.uncompressed THEN o1 \o <<"UNCOMPRESSED">> ELSE o1
        o3 == IF IsSome(self.duplicate_policy)
              THEN TsDuplicatePolicy_write_redis_args(Unwrap(self.duplicate_policy), o2)
              ELSE o2
        o4 == IF IsSome(self.chunk_size)
              THEN o3 \o <<"CHUNK_SIZE", Dec(Unwrap(self.chunk_size))>> ELSE o3
        o5 == IF IsSome(self.labels) THEN (o4 \o <<"LABELS">>) \o Unwrap(self.labels) ELSE o4
    IN o5

\* ------------------------------------------------------- TsAggregationType

Agg(kind, bucket) == [kind |-> kind, bucket |-> bucket]

\* A naming in which the two standard deviations share a name.
TsAggregationType_name_std_shared(a) ==
    CASE a.kind = "Avg" -> "avg"
      [] a.kind = "Sum" -> "sum"
      [] a.kind = "Min" -> "min"
      [] a.kind = "Max" -> "max"
      [] a.kind = "Range" -> "range"
      [] a.kind = "Count" -> "count"
      [] a.kind = "First" -> "first"
      [] a.kind = "Last" -> "last"
      [] a.kind = "StdP" -> "std.p"
      [] a.kind = "StdS" -> "std.p"
      [] a.kind = "VarP" -> "var.p"
      [] a.kind = "VarS" -> "var.s"
      [] a.kind = "Twa" -> "twa"

TsAggregationType_name(a) ==
    CASE a.kind = "Avg" -> "avg"
      [] a.kind = "Sum" -> "sum"
      [] a.kind = "Min" -> "min"
      [] a.kind = "Max" -> "max"
      [] a.kind = "Range" -> "range"
      [] a.kind = "Count" -> "count"
      [] a.kind = "First" -> "first"
      [] a.kind = "Last" -> "last"
      [] a.kind = "StdP" -> "std.p"
      [] a.kind = "StdS" -> "std.s"
      [] a.kind = "VarP" -> "var.p"
      [] a.kind = "VarS" -> "var.s"
      [] a.kind = "Twa" -> "twa"

TsAggregationType_write_redis_args(a, o) ==
    o \o <<"AGGREGATION", TsAggregationType_name(a), Dec(a.bucket)>>

\* ------------------------------------------------- TsAlign, TsBucketTimestamp

AlignStart == [tag |-> "Start", ts |-> 0]
AlignEnd == [tag |-> "End", ts |-> 0]
AlignTs(v) == [tag |-> "Ts", ts |-> v]

TsAlign_write_redis_args(a, o) ==
    CASE a.tag = "Start" -> o \o <<"ALIGN", "-">>
      [] a.tag = "End" -> o \o <<"ALIGN", "+">>
      [] a.tag = "Ts" -> o \o <<"ALIGN", Dec(a.ts)>>

TsBucketTimestamp_write_redis_args(b, o) ==
    CASE b = "Low" -> o \o <<"BUCKETTIMESTAMP", "-">>
      [] b = "High" -> o \o <<"BUCKETTIMESTAMP", "+">>
      [] b = "Mid" -> o \o <<"BUCKETTIMESTAMP", "~">>

\* ------------------------------------------------------------- TsRangeQuery

\* An Integer (any width, signed or not) writes its decimal text.
Integer_write_redis_args(v, o) == o \o <<Dec(v)>>

TsRangeQuery_default ==
    [from |-> None, to |-> None, latest |-> FALSE, filter_by_ts |-> <<>>,
     filter_by_value |-> None, count |-> None, align |-> None,
     aggregation_type |-> None, bucket_timestamp |-> None, empty |-> FALSE]

TsRangeQuery_from(self, from) == [self EXCEPT !.from = Some(from)]

TsRangeQuery_to(self, to) == [self EXCEPT !.to = Some(to)]

TsRangeQuery_latest(self, latest) == [self EXCEPT !.latest = latest]

\* A filter_by_ts that adds the timestamps to those already there.
TsRangeQuery_filter_by_ts_appending(self, ts) ==
    [self EXCEPT !.filter_by_ts = @ \o ts]

TsRangeQuery_filter_by_ts(self, ts) == [self EXCEPT !.filter_by_ts = ts]

TsRangeQuery_filter_by_value(self, min, max) ==
    [self EXCEPT !.filter_by_value = Some(<<min, max>>)]

TsRangeQuery_count(self, count) == [self EXCEPT !.count = Some(count)]

\* An align that is kept only when the aggregation type is already set.
TsRangeQuery_align_after_aggregation(self, align) ==
    IF IsSome(self.aggregation_type) THEN [self EXCEPT !.align = Some(align)] ELSE self

TsRangeQuery_align(self, align) == [self EXCEPT !.align = Some(align)]

TsRangeQuery_aggregation_type(self, aggregation_type) ==
    [self EXCEPT !.aggregation_type = Some(aggregation_type)]

TsRangeQuery_bucket_timestamp(self, bucket_timestamp) ==
    [self EXCEPT !.bucket_timestamp = Some(bucket_timestamp)]

TsRangeQuery_empty(self, empty) == [self EXCEPT !.empty = empty]

RECURSIVE WriteIntegers(_, _)
WriteIntegers(ts, o) ==
    IF ts = <<>> THEN o ELSE WriteIntegers(Tail(ts), Integer_write_redis_args(Head(ts), o))

\* The common clauses of a range query: bounds, LATEST, the filters, COUNT.
TsRangeQuery_write_head(self, o) ==
    LET o1 == IF IsSome(self.from) THEN Integer_write_redis_args(Unwrap(self.from), o)
              ELSE o \o <<"-">>
        o2 == IF IsSome(self.to) THEN Integer_write_redis_args(Unwrap(self.to), o1)
              ELSE o1 \o <<"+">>
        o3 == IF self.latest THEN o2 \o <<"LATEST">> ELSE o2
        o4 == IF self.filter_by_ts # <<>>
              THEN WriteIntegers(self.filter_by_ts, o3 \o <<"FILTER_BY_TS">>) ELSE o3
        o5 == IF IsSome(self.filter_by_value)
              THEN o4 \o <<"FILTER_BY_VALUE", FmtF64(Unwrap(self.filter_by_value)[1]),
                           FmtF64(Unwrap(self.filter_by_value)[2])>>
              ELSE o4
    IN IF IsSome(self.count) THEN o5 \o <<"COUNT", Dec(Unwrap(self.count))>> ELSE o5

\* An encoder that writes ALIGN after the AGGREGATION clause.
TsRangeQuery_write_redis_args_align_last(self, o) ==
    LET o6 == TsRangeQuery_write_head(self, o)
        a1 == TsAggregationType_write_redis_args(Unwrap(self.aggregation_type), o6)
        a2 == IF IsSome(self.align) THEN TsAlign_write_redis_args(Unwrap(self.align), a1)
              ELSE a1
        a3 == IF IsSome(self.bucket_timestamp)
              THEN TsBucketTimestamp_write_redis_args(Unwrap(self.bucket_timestamp), a2)
              ELSE a2
        a4 == IF self.empty THEN a3 \o <<"EMPTY">> ELSE a3
    IN IF IsSome(self.aggregation_type) THEN a4 ELSE o6

\* An encoder that writes EMPTY whether or not an aggregation is set.
TsRangeQuery_write_redis_args_empty_anyway(self, o) ==
    LET o6 == TsRangeQuery_write_head(self, o)
        a1 == IF IsSome(self.align) THEN TsAlign_write_redis_args(Unwrap(self.align), o6)
              ELSE o6
        a2 == TsAggregationType_write_redis_args(Unwrap(self.aggregation_type), a1)
        a3 == IF IsSome(self.bucket_timestamp)
              THEN TsBucketTimestamp_write_redis_args(Unwrap(self.bucket_timestamp), a2)
              ELSE a2
        o7 == IF IsSome(self.aggregation_type) THEN a3 ELSE o6
    IN IF self.empty THEN o7 \o <<"EMPTY">> ELSE o7

TsRangeQuery_write_redis_args(self, o) ==
    LET o6 == TsRangeQuery_write_head(self, o)
        a1 == IF IsSome(self.align) THEN TsAlign_write_redis_args(Unwrap(self.align), o6)
              ELSE o6
        a2 == TsAggregationType_write_redis_args(Unwrap(self.aggregation_type), a1)
        a3 == IF IsSome(self.bucket_timestamp)
              THEN TsBucketTimestamp_write_redis_args(Unwrap(self.bucket_timestamp), a2)
              ELSE a2
        a4 == IF self.empty THEN a3 \o <<"EMPTY">> ELSE a3
    IN IF IsSome(self.aggregation_type) THEN a4 ELSE o6

\* ---------------------------------------------------- TsFilter, TsFilterOptions

TsFilter(name, value, compare) == [name |-> name, value |-> value, compare |-> compare]

TsFilter_write_redis_args(f, o) ==
    LET comp == IF f.compare = "Eq" THEN "=" ELSE "!="
    IN o \o <<(f.name \o comp) \o f.value>>

TsFilterOptions_default == [with_labels |-> FALSE, filters |-> <<>>]

\* values.join(",")
RECURSIVE Join(_)
Join(values) ==
    IF values = <<>> THEN ""
    ELSE IF Len(values) = 1 THEN values[1]
    ELSE (values[1] \o ",") \o Join(Tail(values))

\* A with_labels that can switch the flag on but never off again.
TsFilterOptions_with_labels_sticky(self, value) ==
    [self EXCEPT !.with_labels = @ \/ value]

TsFilterOptions_with_labels(self, value) == [self EXCEPT !.with_labels = value]

TsFilterOptions_equals(self, name, value) ==
    [self EXCEPT !.filters = Append(@, TsFilter(name, value, "Eq"))]

TsFilterOptions_not_equals(self, name, value) ==
    [self EXCEPT !.filters = Append(@, TsFilter(name, value, "NotEq"))]

\* An in_set that joins the values without the parentheses.
TsFilterOptions_in_set_bare(self, name, values) ==
    [self EXCEPT !.filters = Append(@, TsFilter(name, Join(values), "Eq"))]

TsFilterOptions_in_set(self, name, values) ==
    LET set == ("(" \o Join(values)) \o ")"
    IN [self EXCEPT !.filters = Append(@, TsFilter(name, set, "Eq"))]

TsFilterOptions_not_in_set(self, name, values) ==
    LET set == ("(" \o Join(values)) \o ")"
    IN [self EXCEPT !.filters = Append(@, TsFilter(name, set, "NotEq"))]

\* A has_label with the comparison of not_has_label.
TsFilterOptions_has_label_eq(self, name) ==
    [self EXCEPT !.filters = Append(@, TsFilter(name, "", "Eq"))]

TsFilterOptions_has_label(self, name) ==
    [self EXCEPT !.filters = Append(@, TsFilter(name, "", "NotEq"))]

TsFilterOptions_not_has_label(self, name) ==
    [self EXCEPT !.filters = Append(@, TsFilter(name, "", "Eq"))]

RECURSIVE WriteFilters(_, _)
WriteFilters(fs, o) ==
    IF fs = <<>> THEN o ELSE WriteFilters(Tail(fs), TsFilter_write_redis_args(Head(fs), o))

TsFilterOptions_write_redis_args(self, o) ==
    LET o1 == IF self.with_labels THEN o \o <<"WITHLABELS">> ELSE o
    IN WriteFilters(self.filters, o1 \o <<"FILTER">>)

\* ------------------------------------------------------------- reply Values

\* redis::Value.  Data carries bytes: i = 1 marks bytes that are not valid UTF-8.
Nil == [t |-> "Nil", i |-> 0, s |-> "", b |-> <<>>]
ValInt(n) == [t |-> "Int", i |-> n, s |-> "", b |-> <<>>]
Data(str) == [t |-> "Data", i |-> 0, s |-> str, b |-> <<>>]
DataRaw(str) == [t |-> "Data", i |-> 1, s |-> str, b |-> <<>>]
Status(str) == [t |-> "Status", i |-> 0, s |-> str, b |-> <<>>]
Okay == [t |-> "Okay", i |-> 0, s |-> "", b |-> <<>>]
Bulk(items) == [t |-> "Bulk", i |-> 0, s |-> "", b |-> items]

\* No command or builder call was recorded.
NoCall == [op |-> "none"]

\* What a decode returns: Ok(value), Err(error), or a panic of the thread.
Ok(v) == [tag |-> "Ok", val |-> v]
Err(e) == [tag |-> "Err", val |-> e]
Panic(e) == [tag |-> "Panic", val |-> e]

\* The numbers whose decimal text the replies of the model carry.
ParseDomain == {0, 1, 7, 256, 4096, 8192, 60000, 65536}

\* str::parse::<u64>: an optional '+', then decimal digits.
ParseU64(str) ==
    LET hits == {n \in ParseDomain : str = DecNat(n) \/ str = "+" \o DecNat(n)}
    IN IF hits = {} THEN None ELSE Some(CHOOSE n \in hits : TRUE)

\* from_redis_value::<String>
String_from_redis_value(v) ==
    CASE v.t = "Data" -> IF v.i = 0 THEN Ok(v.s) ELSE Err("invalid utf-8")
      [] v.t = "Okay" -> Ok("OK")
      [] v.t = "Status" -> Ok(v.s)
      [] OTHER -> Err("Response type not string compatible.")

\* from_redis_value::<u64>
U64_from_redis_value(v) ==
    CASE v.t = "Int" -> Ok(v.i)
      [] v.t \in {"Data", "Status"} /\ v.i = 0 ->
            IF IsSome(ParseU64(v.s)) THEN Ok(Unwrap(ParseU64(v.s)))
            ELSE Err("Could not convert from string.")
      [] OTHER -> Err("Response type not convertible to numeric.")

U16Modulus == 65536

\* from_redis_value::<u16>: an Int is cast (truncated), a string is parsed in range.
U16_from_redis_value(v) ==
    CASE v.t = "Int" -> Ok(v.i % U16Modulus)
      [] v.t \in {"Data", "Status"} /\ v.i = 0 ->
            IF IsSome(ParseU64(v.s)) /\ Unwrap(ParseU64(v.s)) < U16Modulus
            THEN Ok(Unwrap(ParseU64(v.s)))
            ELSE Err("Could not convert from string.")
      [] OTHER -> Err("Response type not convertible to numeric.")

\* Reply strings: the policy names as the server reports them, other spellings
\* of them, and strings that are no policy name.
Fragments == {"", "block", "first", "last", "min", "max", "LAST", "Last", "xyz", "1"}
ReplyStrings == {a \o b : a, b \in Fragments}

\* str::to_lowercase on the reply strings.
LowerFragment(str) ==
    CASE str = "LAST" -> "last"
      [] str = "Last" -> "last"
      [] OTHER -> str

ToLowercase(str) ==
    IF str = "OK" THEN "ok"
    ELSE LET split == CHOOSE ab \in Fragments \X Fragments : ab[1] \o ab[2] = str
         IN LowerFragment(split[1]) \o LowerFragment(split[2])

\* A decoder that lowercases the reply string before it matches the names.
TsDuplicatePolicy_from_redis_value_lowercasing(v) ==
    LET string == String_from_redis_value(v)
    IN IF string.tag # "Ok" THEN string
       ELSE LET lower == ToLowercase(string.val)
            IN CASE lower = "block" -> Ok(Block)
                 [] lower = "first" -> Ok(First)
                 [] lower = "last" -> Ok(Last)
                 [] lower = "min" -> Ok(Min)
                 [] lower = "max" -> Ok(Max)
                 [] OTHER -> Ok(Other(string.val))

\* The f64 values, in tenths, whose text the replies of the model carry.
F64Domain == {10, 15, 20, 30}

\* str::parse::<f64>: the text with or without a fractional part.
ParseF64(str) ==
    LET hits == {t \in F64Domain :
                    str = FmtF64(t) \/ (t % 10 = 0 /\ str = DecNat(t \div 10))}
    IN IF hits = {} THEN None ELSE Some(CHOOSE t \in hits : TRUE)

\* from_redis_value::<f64>, the value in tenths: an Int is converted, a
\* string is parsed.
F64_from_redis_value(v) ==
    CASE v.t = "Int" -> Ok(v.i * 10)
      [] v.t \in {"Data", "Status"} /\ v.i = 0 ->
            IF IsSome(ParseF64(v.s)) THEN Ok(Unwrap(ParseF64(v.s)))
            ELSE Err("Could not convert from string.")
      [] OTHER -> Err("Response type not convertible to numeric.")

\* A decoder that rejects a policy name it does not know.
TsDuplicatePolicy_from_redis_value_closed(v) ==
    LET string == String_from_redis_value(v)
    IN IF string.tag # "Ok" THEN string
       ELSE CASE string.val = "block" -> Ok(Block)
              [] string.val = "first" -> Ok(First)
              [] string.val = "last" -> Ok(Last)
              [] string.val = "min" -> Ok(Min)
              [] string.val = "max" -> Ok(Max)
              [] OTHER -> Err("unknown duplicate policy")

TsDuplicatePolicy_from_redis_value(v) ==
    LET string == String_from_redis_value(v)
    IN IF string.tag # "Ok" THEN string
       ELSE CASE string.val = "block" -> Ok(Block)
              [] string.val = "first" -> Ok(First)
              [] string.val = "last" -> Ok(Last)
              [] string.val = "min" -> Ok(Min)
              [] string.val = "max" -> Ok(Max)
              [] OTHER -> Ok(Other(string.val))

\* from_redis_value::<Option<String>>: Nil is None.
OptString_from_redis_value(v) ==
    IF v.t = "Nil" THEN Ok(None)
    ELSE LET r == String_from_redis_value(v)
         IN IF r.tag = "Ok" THEN Ok(Some(r.val)) ELSE r

\* from_redis_value::<Option<TsDuplicatePolicy>>
OptPolicy_from_redis_value(v) ==
    IF v.t = "Nil" THEN Ok(None)
    ELSE LET r == TsDuplicatePolicy_from_redis_value(v)
         IN IF r.tag = "Ok" THEN Ok(Some(r.val)) ELSE r

\* -------------------------------------------------------------------- TsInfo

TsInfo_default ==
    [total_samples |-> 0, memory_usage |-> 0, first_timestamp |-> 0,
     last_timestamp |-> 0, retention_time |-> 0, chunk_count |-> 0,
     max_samples_per_chunk |-> 0, chunk_size |-> 0, duplicate_policy |-> None,
     labels |-> <<>>, source_key |-> None, rules |-> <<>>]

\* The HashMap of the reply, a function of its keys: inserting a key that is
\* present replaces its value.
EmptyMap == [key \in {} |-> Nil]
MapInsert(map, key, value) == (key :> value) @@ map
MapHas(map, key) == key \in DOMAIN map
MapGet(map, key) == map[key]

\* for pair in values.chunks(2) { map.insert(from_redis_value(&pair[0])?, pair[1].clone()) }
RECURSIVE InfoMap(_, _, _)
InfoMap(values, i, map) ==
    IF i > Len(values) THEN Ok(map)
    ELSE LET key == String_from_redis_value(values[i])
         IN IF key.tag # "Ok" THEN key
            ELSE IF i + 1 > Len(values) THEN Panic("index out of bounds")
            ELSE InfoMap(values, i + 2, MapInsert(map, key.val, values[i + 1]))

\* One tuple of converted items, each item indexed and unwrapped in turn.
RECURSIVE UnwrapItems(_, _, _)
UnwrapItems(vs, convs, acc) ==
    IF Len(acc) = Len(convs) THEN Ok(acc)
    ELSE LET k == Len(acc) + 1
         IN IF k > Len(vs) THEN Panic("index out of bounds")
            ELSE LET r == CASE convs[k] = "String" -> String_from_redis_value(vs[k])
                            [] convs[k] = "u64" -> U64_from_redis_value(vs[k])
                            [] convs[k] = "f64" -> F64_from_redis_value(vs[k])
                 IN IF r.tag # "Ok" THEN Panic("called unwrap on an Err value")
                    ELSE UnwrapItems(vs, convs, Append(acc, r.val))

\* values.iter().flat_map(|value| match value { Bulk(vs) => Some((..)), _ => None })
RECURSIVE DecodeTuples(_, _, _)
DecodeTuples(values, convs, acc) ==
    IF values = <<>> THEN Ok(acc)
    ELSE IF Head(values).t # "Bulk" THEN DecodeTuples(Tail(values), convs, acc)
    ELSE LET r == UnwrapItems(Head(values).b, convs, <<>>)
         IN IF r.tag # "Ok" THEN r
            ELSE DecodeTuples(Tail(values), convs, Append(acc, r.val))

\* match map.get(key) { Some(Bulk(values)) => ..., _ => vec![] }
InfoTuples(map, key, convs) ==
    IF MapHas(map, key) /\ MapGet(map, key).t = "Bulk"
    THEN DecodeTuples(MapGet(map, key).b, convs, <<>>)
    ELSE Ok(<<>>)

\* A decoder that fails when a field's key is missing from the reply.
InfoField_required(map, key, kind, default) ==
    IF ~MapHas(map, key) THEN Err("missing field")
    ELSE CASE kind = "u64" -> U64_from_redis_value(MapGet(map, key))
           [] kind = "u16" -> U16_from_redis_value(MapGet(map, key))
           [] kind = "OptString" -> OptString_from_redis_value(MapGet(map, key))
           [] kind = "OptPolicy" -> OptPolicy_from_redis_value(MapGet(map, key))

\* if let Some(v) = map.get(key) { field = from_redis_value(v)? }
InfoField(map, key, kind, default) ==
    IF ~MapHas(map, key) THEN Ok(default)
    ELSE CASE kind = "u64" -> U64_from_redis_value(MapGet(map, key))
           [] kind = "u16" -> U16_from_redis_value(MapGet(map, key))
           [] kind = "OptString" -> OptString_from_redis_value(MapGet(map, key))
           [] kind = "OptPolicy" -> OptPolicy_from_redis_value(MapGet(map, key))

TsInfo_from_redis_value(v) ==
    IF v.t # "Bulk" THEN Err("no_ts_info_data")
    ELSE LET m == InfoMap(v.b, 1, EmptyMap)
         IN IF m.tag # "Ok" THEN m
            ELSE LET map == m.val
                     fields == <<InfoField(map, "totalSamples", "u64", 0),
                                 InfoField(map, "memoryUsage", "u64", 0),
                                 InfoField(map, "firstTimestamp", "u64", 0),
                                 InfoField(map, "lastTimestamp", "u64", 0),
                                 InfoField(map, "retentionTime", "u64", 0),
                                 InfoField(map, "chunkCount", "u64", 0),
                                 InfoField(map, "maxSamplesPerChunk", "u16", 0),
                                 InfoField(map, "chunkSize", "u64", 0),
                                 InfoField(map, "sourceKey", "OptString", None),
                                 InfoField(map, "duplicatePolicy", "OptPolicy", None)>>
                     failed == {k \in 1..Len(fields) : fields[k].tag # "Ok"}
                     rules == InfoTuples(map, "rules", <<"String", "u64", "String">>)
                     labels == InfoTuples(map, "labels", <<"String", "String">>)
                 IN IF failed # {} THEN fields[CHOOSE k \in failed : \A j \in failed : k <= j]
                    ELSE IF rules.tag # "Ok" THEN rules
                    ELSE IF labels.tag # "Ok" THEN labels
                    ELSE Ok([total_samples |-> fields[1].val,
                             memory_usage |-> fields[2].val,
                             first_timestamp |-> fields[3].val,
                             last_timestamp |-> fields[4].val,
                             retention_time |-> fields[5].val,
                             chunk_count |-> fields[6].val,
                             max_samples_per_chunk |-> fields[7].val,
                             chunk_size |-> fields[8].val,
                             duplicate_policy |-> fields[10].val,
                             labels |-> labels.val,
                             source_key |-> fields[9].val,
                             rules |-> rules.val])

\* ------------------------------------------------- TsRange, TsMrange, TsMget

\* FromRedisValue::from_redis_values: the items are converted in order and the
\* first one that fails ends the conversion.
\* rs holds the conversion of each item.
FromRedisValues(rs) ==
    LET failed == {k \in 1..Len(rs) : rs[k].tag # "Ok"}
    IN IF failed = {} THEN Ok([k \in 1..Len(rs) |-> rs[k].val])
       ELSE rs[CHOOSE k \in failed : \A j \in failed : k <= j]

\* TsValueReply<u64, f64>: a sample as the tuple (ts, value).
TsValueReply_from_redis_value(v) ==
    IF v.t # "Bulk" THEN Err("no_value_data")
    ELSE UnwrapItems(v.b, <<"u64", "f64">>, <<>>)

\* A decoder that returns the samples ordered by their timestamps.
TsRange_from_redis_value_sorted(v) ==
    IF v.t # "Bulk" THEN Err("no_range_data")
    ELSE LET items == FromRedisValues(
                          [k \in 1..Len(v.b) |-> TsValueReply_from_redis_value(v.b[k])])
         IN IF items.tag # "Ok" THEN items
            ELSE Ok([values |-> SortSeq(items.val, LAMBDA a, b : a[1] < b[1])])

TsRange_from_redis_value(v) ==
    IF v.t # "Bulk" THEN Err("no_range_data")
    ELSE LET items == FromRedisValues(
                          [k \in 1..Len(v.b) |-> TsValueReply_from_redis_value(v.b[k])])
         IN IF items.tag # "Ok" THEN items
            ELSE Ok([values |-> items.val])

\* labels: match values[1] { Bulk(vs) => the pairs of vs, _ => vec![] }
EntryLabels(values) ==
    IF Len(values) < 2 THEN Panic("index out of bounds")
    ELSE IF values[2].t = "Bulk" THEN DecodeTuples(values[2].b, <<"String", "String">>, <<>>)
    ELSE Ok(<<>>)

TsMrangeEntry_from_redis_value(v) ==
    IF v.t # "Bulk" THEN Err("no_mget_data")
    ELSE LET values == v.b
             key == IF values = <<>> THEN Panic("index out of bounds")
                    ELSE LET r == String_from_redis_value(values[1])
                         IN IF r.tag = "Ok" THEN r
                            ELSE Panic("called unwrap on an Err value")
             labels == EntryLabels(values)
             samples == IF Len(values) < 3 THEN Panic("index out of bounds")
                        ELSE IF values[3].t = "Bulk"
                        THEN FromRedisValues(
                                 [k \in 1..Len(values[3].b) |->
                                     TsValueReply_from_redis_value(values[3].b[k])])
                        ELSE Ok(<<>>)
         IN IF key.tag # "Ok" THEN key
            ELSE IF labels.tag # "Ok" THEN labels
            ELSE IF samples.tag # "Ok" THEN samples
            ELSE Ok([key |-> key.val, labels |-> labels.val, values |-> samples.val])

TsMrange_from_redis_value(v) ==
    IF v.t # "Bulk" THEN Ok([values |-> <<>>])
    ELSE LET entries == FromRedisValues(
                            [k \in 1..Len(v.b) |-> TsMrangeEntry_from_redis_value(v.b[k])])
         IN IF entries.tag # "Ok" THEN entries
            ELSE Ok([values |-> entries.val])

TsMgetEntry_from_redis_value(v) ==
    IF v.t # "Bulk" THEN Err("no_mget_data")
    ELSE LET values == v.b
             key == IF values = <<>> THEN Panic("index out of bounds")
                    ELSE String_from_redis_value(values[1])
             labels == EntryLabels(values)
             value == IF Len(values) < 3 THEN Panic("index out of bounds")
                      ELSE IF values[3].t = "Bulk" /\ values[3].b # <<>>
                      THEN LET r == UnwrapItems(values[3].b, <<"u64", "f64">>, <<>>)
                           IN IF r.tag = "Ok" THEN Ok(Some(r.val)) ELSE r
                      ELSE Ok(None)
         IN IF key.tag # "Ok" THEN key
            ELSE IF labels.tag # "Ok" THEN labels
            ELSE IF value.tag # "Ok" THEN value
            ELSE Ok([key |-> key.val, labels |-> labels.val, value |-> value.val])

TsMget_from_redis_value(v) ==
    IF v.t # "Bulk" THEN Ok([values |-> <<>>])
    ELSE LET entries == FromRedisValues(
                            [k \in 1..Len(v.b) |-> TsMgetEntry_from_redis_value(v.b[k])])
         IN IF entries.tag # "Ok" THEN entries
            ELSE Ok([values |-> entries.val])

\* ------------------------------------------------------------------ ts_get

\* A reply the server sends as an error: query returns it as an Err, no
\* decoder sees it.
ErrorReply(msg) == [t |-> "Error", i |-> 0, s |-> msg, b |-> <<>>]

\* from_redis_value::<(u64, f64)>: a sequence of exactly two items, each converted.
Tuple_from_redis_value(v) ==
    IF v.t # "Bulk" THEN Err("Not a bulk response")
    ELSE IF Len(v.b) # 2 THEN Err("Bulk response of wrong dimension")
    ELSE LET ts == U64_from_redis_value(v.b[1])
             value == F64_from_redis_value(v.b[2])
         IN IF ts.tag # "Ok" THEN ts
            ELSE IF value.tag # "Ok" THEN value
            ELSE Ok(<<ts.val, value.val>>)

\* from_redis_value::<Option<(u64, f64)>>: Nil is None.
OptTuple_from_redis_value(v) ==
    IF v.t = "Nil" THEN Ok(None)
    ELSE LET r == Tuple_from_redis_value(v)
         IN IF r.tag = "Ok" THEN Ok(Some(r.val)) ELSE r

\* cmd(..).query(con): an error reply is the Err, any other reply is decoded.
Query_OptTuple(v) ==
    IF v.t = "Error" THEN Err(v.s) ELSE OptTuple_from_redis_value(v)

\* A ts_get that hands the error of the query to the caller.
TsCommands_ts_get_propagating(v) == Query_OptTuple(v)

\* cmd("TS.GET").arg(key).query(self).or_else(|_| Ok(None))
TsCommands_ts_get(v) ==
    LET r == Query_OptTuple(v)
    IN IF r.tag = "Err" THEN Ok(None) ELSE r

\* cmd("TS.GET").arg(key).query_async(self).await.or_else(|_| Ok(None))
AsyncTsCommands_ts_get(v) ==
    LET r == Query_OptTuple(v)
    IN IF r.tag = "Err" THEN Ok(None) ELSE r

\* ------------------------------------------- TsCommands and AsyncTsCommands

\* The scalar arguments of the commands: integers, f64 (in tenths) and strings.
IntArg(n) == [k |-> "int", n |-> n, s |-> ""]
F64Arg(t) == [k |-> "f64", n |-> t, s |-> ""]
StrArg(s) == [k |-> "str", n |-> 0, s |-> s]

\* Cmd::arg of a scalar: one token.
Scalar_write_redis_args(a, o) ==
    o \o << CASE a.k = "int" -> Dec(a.n)
              [] a.k = "f64" -> FmtF64(a.n)
              [] a.k = "str" -> a.s >>

\* Cmd::arg of an Option<TsAggregationType>: nothing for None.
OptAggregation_write_redis_args(a, o) ==
    IF IsSome(a) THEN TsAggregationType_write_redis_args(Unwrap(a), o) ELSE o

\* if let Some(ct) = count { c.arg("COUNT").arg(ct); }
Count_write(count, o) ==
    IF IsSome(count) THEN Scalar_write_redis_args(Unwrap(count), o \o <<"COUNT">>) ELSE o

\* Cmd::arg of a slice of (key, timestamp, value) tuples: each item in turn.
RECURSIVE Samples_write_redis_args(_, _)
Samples_write_redis_args(values, o) ==
    IF values = <<>> THEN o
    ELSE LET v == Head(values)
         IN Samples_write_redis_args(
                Tail(values),
                Scalar_write_redis_args(v[3], Scalar_write_redis_args(v[2], o \o <<v[1]>>)))

TsFilterOptions_get_filters(self) == self.filters

\* A command call with its arguments; the arguments a method does not take
\* hold their defaults.
CmdCall(api, op, key, dest, ts, value, from, to, count, agg, values, options, filter) ==
    [api |-> api, op |-> op, key |-> key, dest |-> dest, ts |-> ts, value |-> value,
     from |-> from, to |-> to, count |-> count, aggregation_type |-> agg,
     values |-> values, options |-> options, filter_options |-> filter]

\* A ts_alter that hands the options to the command as they are.
TsCommands_ts_alter_as_given(key, options) ==
    TsOptions_write_redis_args(options, <<"TS.ALTER", key>>)

TsCommands_ts_alter(key, options) ==
    TsOptions_write_redis_args(TsOptions_uncompressed(options, FALSE), <<"TS.ALTER", key>>)

\* An increment that writes the timestamp before the value.
TsCommands_ts_incrby_timestamp_first(name, key, ts, value) ==
    Scalar_write_redis_args(value, Scalar_write_redis_args(ts, <<name, key, "TIMESTAMP">>))

\* ts_incrby and ts_decrby, which differ in the command name.
TsCommands_ts_incrby(name, key, ts, value) ==
    Scalar_write_redis_args(ts, Scalar_write_redis_args(value, <<name, key>>) \o <<"TIMESTAMP">>)

TsCommands_ts_createrule(source_key, dest_key, aggregation_type) ==
    TsAggregationType_write_redis_args(aggregation_type,
                                       <<"TS.CREATERULE", source_key, dest_key>>)

\* A ts_range that writes the aggregation before the count.
TsCommands_ts_range_count_last(key, from, to, count, aggregation_type) ==
    LET c == Scalar_write_redis_args(to, Scalar_write_redis_args(from, <<"TS.RANGE", key>>))
    IN Count_write(count, OptAggregation_write_redis_args(aggregation_type, c))

TsCommands_ts_range(key, from, to, count, aggregation_type) ==
    LET c == Scalar_write_redis_args(to, Scalar_write_redis_args(from, <<"TS.RANGE", key>>))
    IN OptAggregation_write_redis_args(aggregation_type, Count_write(count, c))

TsCommands_ts_mrange(from, to, count, aggregation_type, filter_options) ==
    LET c == Scalar_write_redis_args(to, Scalar_write_redis_args(from, <<"TS.MRANGE">>))
    IN TsFilterOptions_write_redis_args(
           filter_options,
           OptAggregation_write_redis_args(aggregation_type, Count_write(count, c)))

\* A ts_queryindex that hands the whole filter options to the command.
TsCommands_ts_queryindex_with_options(filter_options) ==
    TsFilterOptions_write_redis_args(filter_options, <<"TS.QUERYINDEX">>)

TsCommands_ts_queryindex(filter_options) ==
    WriteFilters(TsFilterOptions_get_filters(filter_options), <<"TS.QUERYINDEX">>)

TsCommands_methods ==
    {"ts_create", "ts_alter", "ts_add", "ts_add_now", "ts_add_create", "ts_madd",
     "ts_incrby_now", "ts_incrby", "ts_incrby_create", "ts_decrby_now", "ts_decrby",
     "ts_decrby_create", "ts_createrule", "ts_deleterule", "ts_range", "ts_mrange",
     "ts_get", "ts_mget", "ts_info", "ts_queryindex"}

\* The command a method of TsCommands builds: its name and its arguments.
TsCommands_cmd(c) ==
    CASE c.op = "ts_create" -> TsOptions_write_redis_args(c.options, <<"TS.CREATE", c.key>>)
      [] c.op = "ts_alter" -> TsCommands_ts_alter(c.key, c.options)
      [] c.op = "ts_add" ->
            Scalar_write_redis_args(c.value, Scalar_write_redis_args(c.ts, <<"TS.ADD", c.key>>))
      [] c.op = "ts_add_now" -> Scalar_write_redis_args(c.value, <<"TS.ADD", c.key, "*">>)
      [] c.op = "ts_add_create" ->
            TsOptions_write_redis_args(
                c.options,
                Scalar_write_redis_args(c.value,
                                        Scalar_write_redis_args(c.ts, <<"TS.ADD", c.key>>)))
      [] c.op = "ts_madd" -> Samples_write_redis_args(c.values, <<"TS.MADD">>)
      [] c.op = "ts_incrby_now" -> Scalar_write_redis_args(c.value, <<"TS.INCRBY", c.key>>)
      [] c.op = "ts_incrby" -> TsCommands_ts_incrby("TS.INCRBY", c.key, c.ts, c.value)
      [] c.op = "ts_incrby_create" ->
            TsOptions_write_redis_args(
                c.options, TsCommands_ts_incrby("TS.INCRBY", c.key, c.ts, c.value))
      [] c.op = "ts_decrby_now" -> Scalar_write_redis_args(c.value, <<"TS.DECRBY", c.key>>)
      [] c.op = "ts_decrby" -> TsCommands_ts_incrby("TS.DECRBY", c.key, c.ts, c.value)
      [] c.op = "ts_decrby_create" ->
            TsOptions_write_redis_args(
                c.options, TsCommands_ts_incrby("TS.DECRBY", c.key, c.ts, c.value))
      [] c.op = "ts_createrule" -> TsCommands_ts_createrule(c.key, c.dest, c.aggregation_type)
      [] c.op = "ts_deleterule" -> <<"TS.DELETERULE", c.key, c.dest>>
      [] c.op = "ts_range" ->
            TsCommands_ts_range(c.key, c.from, c.to, c.count, c.aggregation_type)
      [] c.op = "ts_mrange" ->
            TsCommands_ts_mrange(c.from, c.to, c.count, c.aggregation_type, c.filter_options)
      [] c.op = "ts_get" -> <<"TS.GET", c.key>>
      [] c.op = "ts_mget" -> TsFilterOptions_write_redis_args(c.filter_options, <<"TS.MGET">>)
      [] c.op = "ts_info" -> <<"TS.INFO", c.key>>
      [] c.op = "ts_queryindex" -> TsCommands_ts_queryindex(c.filter_options)

AsyncTsCommands_methods ==
    {"ts_info", "ts_create", "ts_add", "ts_add_now", "ts_add_create", "ts_madd",
     "ts_incrby_now", "ts_incrby", "ts_incrby_create", "ts_decrby_now", "ts_decrby",
     "ts_decrby_create", "ts_createrule", "ts_deleterule", "ts_get", "ts_mget",
     "ts_range", "ts_mrange", "ts_queryindex"}

\* cmd(name).arg(key).arg(value).arg("TIMESTAMP").arg(ts) of the asynchronous
\* ts_incrby and ts_decrby.
AsyncTsCommands_ts_incrby(name, key, ts, value) ==
    Scalar_write_redis_args(ts, Scalar_write_redis_args(value, <<name, key>>) \o <<"TIMESTAMP">>)

\* c.arg(..from..).arg(..to..); COUNT; c.arg(aggregation_type) of the
\* asynchronous ts_range and ts_mrange.
AsyncTsCommands_range_args(c, from, to, count, aggregation_type) ==
    OptAggregation_write_redis_args(
        aggregation_type,
        Count_write(count, Scalar_write_redis_args(to, Scalar_write_redis_args(from, c))))

\* The command a method of AsyncTsCommands builds: its name and its arguments.
AsyncTsCommands_cmd(c) ==
    CASE c.op = "ts_info" -> <<"TS.INFO", c.key>>
      [] c.op = "ts_create" -> TsOptions_write_redis_args(c.options, <<"TS.CREATE", c.key>>)
      [] c.op = "ts_add" ->
            Scalar_write_redis_args(c.value, Scalar_write_redis_args(c.ts, <<"TS.ADD", c.key>>))
      [] c.op = "ts_add_now" -> Scalar_write_redis_args(c.value, <<"TS.ADD", c.key, "*">>)
      [] c.op = "ts_add_create" ->
            TsOptions_write_redis_args(
                c.options,
                Scalar_write_redis_args(c.value,
                                        Scalar_write_redis_args(c.ts, <<"TS.ADD", c.key>>)))
      [] c.op = "ts_madd" -> Samples_write_redis_args(c.values, <<"TS.MADD">>)
      [] c.op = "ts_incrby_now" -> Scalar_write_redis_args(c.value, <<"TS.INCRBY", c.key>>)
      [] c.op = "ts_incrby" -> AsyncTsCommands_ts_incrby("TS.INCRBY", c.key, c.ts, c.value)
      [] c.op = "ts_incrby_create" ->
            TsOptions_write_redis_args(
                c.options, AsyncTsCommands_ts_incrby("TS.INCRBY", c.key, c.ts, c.value))
      [] c.op = "ts_decrby_now" -> Scalar_write_redis_args(c.value, <<"TS.DECRBY", c.key>>)
      [] c.op = "ts_decrby" -> AsyncTsCommands_ts_incrby("TS.DECRBY", c.key, c.ts, c.value)
      [] c.op = "ts_decrby_create" ->
            TsOptions_write_redis_args(
                c.options, AsyncTsCommands_ts_incrby("TS.DECRBY", c.key, c.ts, c.value))
      [] c.op = "ts_createrule" ->
            TsAggregationType_write_redis_args(c.aggregation_type,
                                               <<"TS.CREATERULE", c.key, c.dest>>)
      [] c.op = "ts_deleterule" -> <<"TS.DELETERULE", c.key, c.dest>>
      [] c.op = "ts_get" -> <<"TS.GET", c.key>>
      [] c.op = "ts_mget" -> TsFilterOptions_write_redis_args(c.filter_options, <<"TS.MGET">>)
      [] c.op = "ts_range" ->
            AsyncTsCommands_range_args(<<"TS.RANGE", c.key>>, c.from, c.to, c.count,
                                       c.aggregation_type)
      [] c.op = "ts_mrange" ->
            TsFilterOptions_write_redis_args(
                c.filter_options,
                AsyncTsCommands_range_args(<<"TS.MRANGE">>, c.from, c.to, c.count,
                                           c.aggregation_type))
      [] c.op = "ts_queryindex" ->
            WriteFilters(TsFilterOptions_get_filters(c.filter_options), <<"TS.QUERYINDEX">>)

\* ------------------------------------------------------------------ inputs

RetentionTimes == {60000}
ChunkSizes == {8192}
PolicyArgs == {Last}
LabelArgs == {<<"component", "engine">>, <<"component", "spare">>}
LabelLists == {<<>>, <<<<"a", "b">>, <<"component", "engine">>>>}

\* A recorded TsOptions builder call.
OCall(op, num, flag, pol, pairs) ==
    [op |-> op, num |-> num, flag |-> flag, pol |-> pol, pairs |-> pairs]

\* ---------------------------------------------------- the caller: TsOptions

Building(t, bound, calls) == target = t /\ pc = "build" /\ Len(calls) < bound

\* The caller of the scalar mutators of TsOptions and TsRangeQuery, which
\* calls them on builders that already hold values.
Mutating == target = "mut" /\ pc = "build" /\ Len(optCalls) + Len(qCalls) < MaxMutations

OptFrame == UNCHANGED <<target, pc, out, query, qCalls, fopts, fCalls, reply, result, call>>

OptRetentionTime ==
    /\ Building("opts", MaxOptCalls, optCalls) \/ Mutating
    /\ \E time \in RetentionTimes :
          /\ opts' = TsOptions_retention_time(opts, time)
          /\ optCalls' = Append(optCalls, OCall("retention_time", time, FALSE, Block, <<>>))
    /\ OptFrame

OptUncompressed ==
    /\ Building("opts", MaxOptCalls, optCalls) \/ Mutating
    /\ \E value \in BOOLEAN :
          /\ opts' = TsOptions_uncompressed(opts, value)
          /\ optCalls' = Append(optCalls, OCall("uncompressed", 0, value, Block, <<>>))
    /\ OptFrame

OptLabels ==
    /\ Building("opts", MaxOptCalls, optCalls) \/ Building("labels", MaxLabelCalls, optCalls)
    /\ \E labels \in LabelLists :
          /\ opts' = TsOptions_labels(opts, labels)
          /\ optCalls' = Append(optCalls, OCall("labels", 0, FALSE, Block, labels))
    /\ OptFrame

OptLabel ==
    /\ Building("opts", MaxOptCalls, optCalls) \/ Building("labels", MaxLabelCalls, optCalls)
    /\ \E l \in LabelArgs :
          /\ opts' = TsOptions_label(opts, l[1], l[2])
          /\ optCalls' = Append(optCalls, OCall("label", 0, FALSE, Block, <<l>>))
    /\ OptFrame

OptDuplicatePolicy ==
    /\ Building("opts", MaxOptCalls, optCalls) \/ Mutating
    /\ \E policy \in PolicyArgs :
          /\ opts' = TsOptions_duplicate_policy(opts, policy)
          /\ optCalls' = Append(optCalls, OCall("duplicate_policy", 0, FALSE, policy, <<>>))
    /\ OptFrame

OptChunkSize ==
    /\ Building("opts", MaxOptCalls, optCalls) \/ Mutating
    /\ \E size \in ChunkSizes :
          /\ opts' = TsOptions_chunk_size(opts, size)
          /\ optCalls' = Append(optCalls, OCall("chunk_size", size, FALSE, Block, <<>>))
    /\ OptFrame

\* The caller hands the options to the encoder.
EncodeOptions ==
    /\ target \in {"opts", "labels"} /\ pc = "build"
    /\ out' = TsOptions_write_redis_args(opts, out)
    /\ pc' = "encoded"
    /\ UNCHANGED <<target, opts, optCalls, query, qCalls, fopts, fCalls, reply, result, call>>

\* The tokens that follow the LABELS keyword (the clause is the last one).
LabelsClause(o) ==
    IF \E i \in 1..Len(o) : o[i] = "LABELS"
    THEN SubSeq(o, (CHOOSE i \in 1..Len(o) :
                       o[i] = "LABELS" /\ \A j \in 1..(i - 1) : o[j] # "LABELS") + 1, Len(o))
    ELSE <<>>

\* The name/value tokens of a LABELS clause, as the (name, value) entries of a reply.
LabelEntries(tokens) ==
    [k \in 1..(Len(tokens) \div 2) |-> Bulk(<<Data(tokens[2 * k - 1]), Data(tokens[2 * k])>>)]

DefaultChunkSize == 4096

\* The TS.INFO reply of a series created with the encoded options: the server
\* lists the labels it was sent, in the order it was sent them.
InfoReplyFor(o, options) ==
    Bulk(<<Data("totalSamples"), ValInt(0),
           Data("memoryUsage"), ValInt(DefaultChunkSize),
           Data("firstTimestamp"), ValInt(0),
           Data("lastTimestamp"), ValInt(0),
           Data("retentionTime"),
           ValInt(IF IsSome(options.retention_time) THEN Unwrap(options.retention_time) ELSE 0),
           Data("chunkCount"), ValInt(1),
           Data("chunkSize"),
           ValInt(IF IsSome(options.chunk_size) THEN Unwrap(options.chunk_size)
                  ELSE DefaultChunkSize),
           Data("duplicatePolicy"),
           IF IsSome(options.duplicate_policy) /\ Unwrap(options.duplicate_policy).tag = "Last"
           THEN Data("last") ELSE Nil,
           Data("labels"), Bulk(LabelEntries(LabelsClause(o))),
           Data("sourceKey"), Nil,
           Data("rules"), Bulk(<<>>)>>)

\* ts_info on the series created with the labels: the reply arrives and is
\* decoded as a TsInfo.
TsInfoCall ==
    /\ target = "labels" /\ pc = "encoded"
    /\ reply' = InfoReplyFor(out, opts)
    /\ result' = TsInfo_from_redis_value(reply')
    /\ pc' = "info_decoded"
    /\ UNCHANGED <<target, out, opts, optCalls, query, qCalls, fopts, fCalls, call>>

NextOpts ==
    \/ OptRetentionTime
    \/ OptUncompressed
    \/ OptLabels
    \/ OptLabel
    \/ OptDuplicatePolicy
    \/ OptChunkSize
    \/ EncodeOptions

\* Fresh builders, an empty sink, no reply yet.
InitFor(t) ==
    /\ target = t
    /\ pc = "build"
    /\ out = <<>>
    /\ opts = TsOptions_default
    /\ optCalls = <<>>
    /\ query = TsRangeQuery_default
    /\ qCalls = <<>>
    /\ fopts = TsFilterOptions_default
    /\ fCalls = <<>>
    /\ reply = Nil
    /\ result = Err("no reply decoded")
    /\ call = NoCall

SpecOpts == InitFor("opts") /\ [][NextOpts]_vars

\* A caller that only labels the series, creates it and asks for its TsInfo.
NextLabels ==
    \/ OptLabels
    \/ OptLabel
    \/ EncodeOptions
    \/ TsInfoCall

SpecLabels == InitFor("labels") /\ [][NextLabels]_vars

\* -------------------------------------------------- the caller: TsRangeQuery

FromArgs == {1234, -5}
ToArgs == {5678}
TsListArgs == {<<12, 123>>}
ValueRangeArgs == {<<10, 55>>}
CountArgs == {1}
AlignArgs == {AlignStart, AlignTs(1000)}
AggArgs == {Agg("Avg", 5000), Agg("Twa", 10)}
BucketArgs == {"High"}

\* A recorded TsRangeQuery builder call.
QCall(op, int, ints, range, flag, align, agg, bkt) ==
    [op |-> op, int |-> int, ints |-> ints, range |-> range, flag |-> flag,
     align |-> align, agg |-> agg, bkt |-> bkt]

QArg(op, int, ints, range, flag) ==
    QCall(op, int, ints, range, flag, AlignStart, Agg("Avg", 0), "Low")

QueryCalls(op) ==
    CASE op = "from" -> {QArg(op, v, <<>>, <<0, 0>>, FALSE) : v \in FromArgs}
      [] op = "to" -> {QArg(op, v, <<>>, <<0, 0>>, FALSE) : v \in ToArgs}
      [] op = "latest" -> {QArg(op, 0, <<>>, <<0, 0>>, b) : b \in BOOLEAN}
      [] op = "filter_by_ts" -> {QArg(op, 0, ts, <<0, 0>>, FALSE) : ts \in TsListArgs}
      [] op = "filter_by_value" -> {QArg(op, 0, <<>>, r, FALSE) : r \in ValueRangeArgs}
      [] op = "count" -> {QArg(op, v, <<>>, <<0, 0>>, FALSE) : v \in CountArgs}
      [] op = "align" ->
            {QCall(op, 0, <<>>, <<0, 0>>, FALSE, a, Agg("Avg", 0), "Low") : a \in AlignArgs}
      [] op = "aggregation_type" ->
            {QCall(op, 0, <<>>, <<0, 0>>, FALSE, AlignStart, a, "Low") : a \in AggArgs}
      [] op = "bucket_timestamp" ->
            {QCall(op, 0, <<>>, <<0, 0>>, FALSE, AlignStart, Agg("Avg", 0), b) : b \in BucketArgs}
      [] op = "empty" -> {QArg(op, 0, <<>>, <<0, 0>>, b) : b \in BOOLEAN}

\* The builder method a recorded call names, applied to self.
TsRangeQuery_call(self, c) ==
    CASE c.op = "from" -> TsRangeQuery_from(self, c.int)
      [] c.op = "to" -> TsRangeQuery_to(self, c.int)
      [] c.op = "latest" -> TsRangeQuery_latest(self, c.flag)
      [] c.op = "filter_by_ts" -> TsRangeQuery_filter_by_ts(self, c.ints)
      [] c.op = "filter_by_value" -> TsRangeQuery_filter_by_value(self, c.range[1], c.range[2])
      [] c.op = "count" -> TsRangeQuery_count(self, c.int)
      [] c.op = "align" -> TsRangeQuery_align(self, c.align)
      [] c.op = "aggregation_type" -> TsRangeQuery_aggregation_type(self, c.agg)
      [] c.op = "bucket_timestamp" -> TsRangeQuery_bucket_timestamp(self, c.bkt)
      [] c.op = "empty" -> TsRangeQuery_empty(self, c.flag)

\* TsRangeQuery::default() followed by the calls, in order.
RECURSIVE TsRangeQuery_build(_, _)
TsRangeQuery_build(self, calls) ==
    IF calls = <<>> THEN self
    ELSE TsRangeQuery_build(TsRangeQuery_call(self, Head(calls)), Tail(calls))

QFrame == UNCHANGED <<target, pc, out, opts, optCalls, fopts, fCalls, reply, result, call>>

QFrom ==
    /\ Building("query", MaxQCalls, qCalls) \/ Mutating
    /\ \E c \in QueryCalls("from") :
          /\ query' = TsRangeQuery_from(query, c.int)
          /\ qCalls' = Append(qCalls, c)
    /\ QFrame

QTo ==
    /\ Building("query", MaxQCalls, qCalls) \/ Mutating
    /\ \E c \in QueryCalls("to") :
          /\ query' = TsRangeQuery_to(query, c.int)
          /\ qCalls' = Append(qCalls, c)
    /\ QFrame

QLatest ==
    /\ Building("query", MaxQCalls, qCalls) \/ Mutating
    /\ \E c \in QueryCalls("latest") :
          /\ query' = TsRangeQuery_latest(query, c.flag)
          /\ qCalls' = Append(qCalls, c)
    /\ QFrame

QFilterByTs ==
    /\ Building("query", MaxQCalls, qCalls) \/ Mutating
    /\ \E c \in QueryCalls("filter_by_ts") :
          /\ query' = TsRangeQuery_filter_by_ts(query, c.ints)
          /\ qCalls' = Append(qCalls, c)
    /\ QFrame

QFilterByValue ==
    /\ Building("query", MaxQCalls, qCalls) \/ Mutating
    /\ \E c \in QueryCalls("filter_by_value") :
          /\ query' = TsRangeQuery_filter_by_value(query, c.range[1], c.range[2])
          /\ qCalls' = Append(qCalls, c)
    /\ QFrame

QCount ==
    /\ Building("query", MaxQCalls, qCalls) \/ Mutating
    /\ \E c \in QueryCalls("count") :
          /\ query' = TsRangeQuery_count(query, c.int)
          /\ qCalls' = Append(qCalls, c)
    /\ QFrame

QAlign ==
    /\ Building("query", MaxQCalls, qCalls) \/ Mutating
    /\ \E c \in QueryCalls("align") :
          /\ query' = TsRangeQuery_align(query, c.align)
          /\ qCalls' = Append(qCalls, c)
    /\ QFrame

QAggregationType ==
    /\ Building("query", MaxQCalls, qCalls) \/ Mutating
    /\ \E c \in QueryCalls("aggregation_type") :
          /\ query' = TsRangeQuery_aggregation_type(query, c.agg)
          /\ qCalls' = Append(qCalls, c)
    /\ QFrame

QBucketTimestamp ==
    /\ Building("query", MaxQCalls, qCalls) \/ Mutating
    /\ \E c \in QueryCalls("bucket_timestamp") :
          /\ query' = TsRangeQuery_bucket_timestamp(query, c.bkt)
          /\ qCalls' = Append(qCalls, c)
    /\ QFrame

QEmpty ==
    /\ Building("query", MaxQCalls, qCalls) \/ Mutating
    /\ \E c \in QueryCalls("empty") :
          /\ query' = TsRangeQuery_empty(query, c.flag)
          /\ qCalls' = Append(qCalls, c)
    /\ QFrame

\* The caller hands the query to the encoder.
EncodeQuery ==
    /\ target \in {"query", "query_enc"} /\ pc = "build"
    /\ out' = TsRangeQuery_write_redis_args(query, out)
    /\ pc' = "encoded"
    /\ UNCHANGED <<target, opts, optCalls, query, qCalls, fopts, fCalls, reply, result, call>>

NextQuery ==
    \/ QFrom
    \/ QTo
    \/ QLatest
    \/ QFilterByTs
    \/ QFilterByValue
    \/ QCount
    \/ QAlign
    \/ QAggregationType
    \/ QBucketTimestamp
    \/ QEmpty
    \/ EncodeQuery

SpecQuery == InitFor("query") /\ [][NextQuery]_vars

\* Every query the builder can produce from these arguments: each method
\* called at most once, in the order the fields are declared.
QueryOps ==
    <<"from", "to", "latest", "filter_by_ts", "filter_by_value", "count", "align",
      "aggregation_type", "bucket_timestamp", "empty">>

RECURSIVE CallChoices(_)
CallChoices(ops) ==
    IF ops = <<>> THEN {<<>>}
    ELSE LET rest == CallChoices(Tail(ops))
         IN rest \cup {<<c>> \o r : c \in QueryCalls(Head(ops)), r \in rest}

InitQueryEnc ==
    /\ target = "query_enc"
    /\ pc = "build"
    /\ out = <<>>
    /\ opts = TsOptions_default
    /\ optCalls = <<>>
    /\ qCalls \in CallChoices(QueryOps)
    /\ query = TsRangeQuery_build(TsRangeQuery_default, qCalls)
    /\ fopts = TsFilterOptions_default
    /\ fCalls = <<>>
    /\ reply = Nil
    /\ result = Err("no reply decoded")
    /\ call = NoCall

NextQueryEnc == EncodeQuery

SpecQueryEnc == InitQueryEnc /\ [][NextQueryEnc]_vars

\* ----------------------------------------------- the caller: TsFilterOptions

LabelNames == {"sensor", "region"}
LabelValues == {"temperature", ""}
ValueLists == {<<>>, <<"us">>, <<"us", "eu">>}

\* A recorded TsFilterOptions builder call.
FCall(op, name, value, values, flag) ==
    [op |-> op, name |-> name, value |-> value, values |-> values, flag |-> flag]

FFrame == UNCHANGED <<target, pc, out, opts, optCalls, query, qCalls, reply, result, call>>

FWithLabels ==
    /\ Building("filter", MaxFCalls, fCalls)
    /\ \E value \in BOOLEAN :
          /\ fopts' = TsFilterOptions_with_labels(fopts, value)
          /\ fCalls' = Append(fCalls, FCall("with_labels", "", "", <<>>, value))
    /\ FFrame

FEquals ==
    /\ Building("filter", MaxFCalls, fCalls)
    /\ \E name \in LabelNames, value \in LabelValues :
          /\ fopts' = TsFilterOptions_equals(fopts, name, value)
          /\ fCalls' = Append(fCalls, FCall("equals", name, value, <<>>, FALSE))
    /\ FFrame

FNotEquals ==
    /\ Building("filter", MaxFCalls, fCalls)
    /\ \E name \in LabelNames, value \in LabelValues :
          /\ fopts' = TsFilterOptions_not_equals(fopts, name, value)
          /\ fCalls' = Append(fCalls, FCall("not_equals", name, value, <<>>, FALSE))
    /\ FFrame

FInSet ==
    /\ Building("filter", MaxFCalls, fCalls)
    /\ \E name \in LabelNames, values \in ValueLists :
          /\ fopts' = TsFilterOptions_in_set(fopts, name, values)
          /\ fCalls' = Append(fCalls, FCall("in_set", name, "", values, FALSE))
    /\ FFrame

FNotInSet ==
    /\ Building("filter", MaxFCalls, fCalls)
    /\ \E name \in LabelNames, values \in ValueLists :
          /\ fopts' = TsFilterOptions_not_in_set(fopts, name, values)
          /\ fCalls' = Append(fCalls, FCall("not_in_set", name, "", values, FALSE))
    /\ FFrame

FHasLabel ==
    /\ Building("filter", MaxFCalls, fCalls)
    /\ \E name \in LabelNames :
          /\ fopts' = TsFilterOptions_has_label(fopts, name)
          /\ fCalls' = Append(fCalls, FCall("has_label", name, "", <<>>, FALSE))
    /\ FFrame

FNotHasLabel ==
    /\ Building("filter", MaxFCalls, fCalls)
    /\ \E name \in LabelNames :
          /\ fopts' = TsFilterOptions_not_has_label(fopts, name)
          /\ fCalls' = Append(fCalls, FCall("not_has_label", name, "", <<>>, FALSE))
    /\ FFrame

\* The caller hands the filter options to the encoder.
EncodeFilter ==
    /\ target = "filter" /\ pc = "build"
    /\ out' = TsFilterOptions_write_redis_args(fopts, out)
    /\ pc' = "encoded"
    /\ UNCHANGED <<target, opts, optCalls, query, qCalls, fopts, fCalls, reply, result, call>>

NextFilter ==
    \/ FWithLabels
    \/ FEquals
    \/ FNotEquals
    \/ FInSet
    \/ FNotInSet
    \/ FHasLabel
    \/ FNotHasLabel
    \/ EncodeFilter

SpecFilter == InitFor("filter") /\ [][NextFilter]_vars

\* ------------------------------------------------------ the caller: decoding

ScalarReplies ==
    {Data(str) : str \in ReplyStrings} \cup {Status(str) : str \in ReplyStrings}
        \cup {DataRaw("last"), Okay, Nil, ValInt(0), ValInt(7), ValInt(65536)}

InfoReplies ==
    {Bulk(<<>>),
     Bulk(<<Data("totalSamples"), ValInt(7)>>),
     Bulk(<<Data("totalSamples"), Data("256")>>),
     Bulk(<<Data("duplicatePolicy"), Data("last"), Data("maxSamplesPerChunk"), ValInt(65536)>>),
     Bulk(<<Data("labels"), Bulk(<<Bulk(<<Data("a"), Data("b")>>)>>), Data("sourceKey"), Nil>>),
     Bulk(<<Data("rules"), Bulk(<<Bulk(<<Data("dest"), ValInt(60000), Data("AVG")>>)>>)>>)}

\* The keys of a TS.INFO reply, in the order the server lists them.
InfoKeys ==
    <<"totalSamples", "memoryUsage", "firstTimestamp", "lastTimestamp",
      "retentionTime", "chunkCount", "maxSamplesPerChunk", "chunkSize",
      "duplicatePolicy", "labels", "sourceKey", "rules">>

\* The value the server reports under each key for the series of the replies.
InfoValue(key) ==
    CASE key = "totalSamples" -> ValInt(7)
      [] key = "memoryUsage" -> ValInt(4096)
      [] key = "firstTimestamp" -> ValInt(1)
      [] key = "lastTimestamp" -> ValInt(60000)
      [] key = "retentionTime" -> ValInt(60000)
      [] key = "chunkCount" -> ValInt(1)
      [] key = "maxSamplesPerChunk" -> ValInt(256)
      [] key = "chunkSize" -> ValInt(8192)
      [] key = "duplicatePolicy" -> Data("last")
      [] key = "labels" -> Bulk(<<Bulk(<<Data("a"), Data("b")>>),
                                  Bulk(<<Data("component"), Data("engine")>>)>>)
      [] key = "sourceKey" -> Data("src")
      [] key = "rules" -> Bulk(<<Bulk(<<Data("dest"), ValInt(60000), Data("AVG")>>)>>)

\* The reply that lists the keys of a set, each with its value.
InfoReplyOf(keys) ==
    Bulk(Flatten([k \in 1..Len(InfoKeys) |->
            IF InfoKeys[k] \in keys THEN <<Data(InfoKeys[k]), InfoValue(InfoKeys[k])>>
            ELSE <<>>]))

InfoSubsetReplies == {InfoReplyOf(keys) : keys \in SUBSET {InfoKeys[k] : k \in 1..Len(InfoKeys)}}

\* The sequences of at most n items of a set.
SeqsUpTo(S, n) == UNION {[1..k -> S] : k \in 0..n}

\* Elements of a labels list: two pairs, and elements that are no pair (not a
\* sequence, one item only, an item that is no string).
LabelElements ==
    {Bulk(<<Data("a"), Data("b")>>), Bulk(<<Data("component"), Data("engine")>>),
     Data("x"), Bulk(<<Data("a")>>), Bulk(<<Data("a"), Nil>>)}

\* Elements of a rules list: two rules, and elements that are no rule (not a
\* sequence, two items only, a bucket duration that is no number).
RuleElements ==
    {Bulk(<<Data("dest"), ValInt(60000), Data("AVG")>>),
     Bulk(<<Data("dest2"), Data("4096"), Data("SUM")>>),
     ValInt(3), Bulk(<<Data("dest"), ValInt(60000)>>),
     Bulk(<<Data("dest"), Data("xyz"), Data("AVG")>>)}

\* TS.INFO replies of other shapes: labels and rules of every element mix,
\* odd lengths, keys that are no strings, values of the wrong type, keys the
\* decoder does not know.
ShapedInfoReplies ==
    {Bulk(<<Data("labels"), Bulk(q)>>) : q \in SeqsUpTo(LabelElements, MaxElements)}
        \cup {Bulk(<<Data("rules"), Bulk(q)>>) : q \in SeqsUpTo(RuleElements, MaxElements)}
        \cup {Bulk(<<Data("totalSamples")>>),
              Bulk(<<Data("totalSamples"), ValInt(7), Data("memoryUsage")>>),
              Bulk(<<ValInt(1), ValInt(2)>>),
              Bulk(<<Bulk(<<>>), ValInt(2), Data("totalSamples")>>),
              Bulk(<<Data("totalSamples"), Data("xyz")>>),
              Bulk(<<Data("chunkSize"), Bulk(<<>>)>>),
              Bulk(<<Data("sourceKey"), ValInt(1)>>),
              Bulk(<<Data("labels"), Nil, Data("rules"), Data("x")>>),
              Bulk(<<Data("keySelfName"), Data("xyz"), Data("totalSamples"), ValInt(1)>>)}

\* A sample as the server replies it: the timestamp and the text of the value.
Sample(ts, text) == Bulk(<<ValInt(ts), Data(text)>>)

\* Elements of a TS.RANGE reply: three samples, and elements that are no
\* sample (not a sequence, one item only, a value that is no number), and a
\* sample followed by a third item.
RangeElements ==
    {Sample(21, "1"), Sample(321, "2"), Sample(4321, "3"),
     ValInt(5), Bulk(<<ValInt(21)>>), Bulk(<<ValInt(21), Data("xyz")>>),
     Bulk(<<ValInt(21), Data("1"), Data("xyz")>>)}

RangeReplies == {Bulk(q) : q \in SeqsUpTo(RangeElements, MaxSamples)}

\* The fields of an entry of a TS.MRANGE or TS.MGET reply.
EntryKeys == {Data("test_ts_mrange"), Nil}
EntryLabelFields ==
    {Bulk(<<>>), Bulk(<<Bulk(<<Data("l"), Data("mrange")>>)>>),
     Bulk(<<Data("x"), Bulk(<<Data("l"), Data("mrange")>>)>>),
     Bulk(<<Bulk(<<Data("l")>>)>>), Nil}
EntrySampleFields ==
    {Bulk(<<>>), Bulk(<<Sample(12, "1"), Sample(123, "2"), Sample(1234, "3")>>),
     Bulk(<<Sample(1234, "3"), Sample(12, "1")>>), Bulk(<<ValInt(5)>>),
     Bulk(<<Bulk(<<ValInt(21)>>)>>), Nil, Sample(21, "1.5")}

Entries ==
    {Bulk(<<k, l, v>>) : k \in EntryKeys, l \in EntryLabelFields, v \in EntrySampleFields}
        \cup {Data("x"), Bulk(<<>>), Bulk(<<Data("test_ts_mrange")>>),
              Bulk(<<Data("test_ts_mrange"), Bulk(<<>>)>>)}

\* The entries of the replies of several series: the two series of
\* test_ts_mrange, the latest value of one of them, the series of test_ts_mget
\* that has no sample, and elements that are no entry.
SeriesEntries ==
    {Bulk(<<Data("test_ts_mrange"), Bulk(<<Bulk(<<Data("l"), Data("mrange")>>)>>),
            Bulk(<<Sample(12, "1"), Sample(123, "2"), Sample(1234, "3")>>)>>),
     Bulk(<<Data("test_ts_mrange2"), Bulk(<<>>),
            Bulk(<<Sample(21, "1"), Sample(321, "2"), Sample(4321, "3")>>)>>),
     Bulk(<<Data("test_ts_mget"), Bulk(<<Bulk(<<Data("l"), Data("mget")>>)>>),
            Sample(1234, "3")>>),
     Bulk(<<Data("test_ts_mget3"), Bulk(<<Bulk(<<Data("l"), Data("mget")>>)>>), Bulk(<<>>)>>),
     Data("x"),
     Bulk(<<Data("test_ts_mrange")>>)}

MultiReplies ==
    {Bulk(<<e>>) : e \in Entries} \cup {Bulk(q) : q \in SeqsUpTo(SeriesEntries, MaxEntries)}

DecodeReplies ==
    ScalarReplies \cup InfoReplies \cup InfoSubsetReplies \cup ShapedInfoReplies
        \cup RangeReplies \cup MultiReplies

InitDecode ==
    /\ target = "decode"
    /\ pc = "replied"
    /\ out = <<>>
    /\ opts = TsOptions_default
    /\ optCalls = <<>>
    /\ query = TsRangeQuery_default
    /\ qCalls = <<>>
    /\ fopts = TsFilterOptions_default
    /\ fCalls = <<>>
    /\ reply \in DecodeReplies
    /\ result = Err("no reply decoded")
    /\ call = NoCall

DecodeFrame == UNCHANGED <<target, out, opts, optCalls, query, qCalls, fopts, fCalls, reply, call>>

\* The reply is decoded as a TsDuplicatePolicy.
DecodePolicy ==
    /\ target = "decode" /\ pc = "replied"
    /\ result' = TsDuplicatePolicy_from_redis_value(reply)
    /\ pc' = "policy_decoded"
    /\ DecodeFrame

\* The reply is decoded as a TsInfo.
DecodeInfo ==
    /\ target = "decode" /\ pc = "replied"
    /\ result' = TsInfo_from_redis_value(reply)
    /\ pc' = "info_decoded"
    /\ DecodeFrame

\* The reply is decoded as a TsRange<u64, f64>.
DecodeRange ==
    /\ target = "decode" /\ pc = "replied"
    /\ result' = TsRange_from_redis_value(reply)
    /\ pc' = "range_decoded"
    /\ DecodeFrame

\* The reply is decoded as a TsMrange<u64, f64>.
DecodeMrange ==
    /\ target = "decode" /\ pc = "replied"
    /\ result' = TsMrange_from_redis_value(reply)
    /\ pc' = "mrange_decoded"
    /\ DecodeFrame

\* The reply is decoded as a TsMget<u64, f64>.
DecodeMget ==
    /\ target = "decode" /\ pc = "replied"
    /\ result' = TsMget_from_redis_value(reply)
    /\ pc' = "mget_decoded"
    /\ DecodeFrame

\* The decoded policy is encoded again as a command argument.
EncodePolicy ==
    /\ target = "decode" /\ pc = "policy_decoded" /\ result.tag = "Ok"
    /\ out' = TsDuplicatePolicy_write_redis_args(result.val, <<>>)
    /\ pc' = "policy_encoded"
    /\ UNCHANGED <<target, opts, optCalls, query, qCalls, fopts, fCalls, reply, result, call>>

NextDecode ==
    \/ DecodePolicy
    \/ DecodeInfo
    \/ DecodeRange
    \/ DecodeMrange
    \/ DecodeMget
    \/ EncodePolicy

SpecDecode == InitDecode /\ [][NextDecode]_vars

\* ------------------------------------------------------- the caller: ts_get

\* Replies to TS.GET: the latest sample, samples whose items do not convert,
\* and the errors the server replies (the replies of the other commands are
\* the unrecognized shapes).
GetReplies ==
    {Sample(1234, "2"), Sample(21, "1.5"), Bulk(<<Data("4096"), Data("3")>>),
     Bulk(<<ValInt(1234), Data("xyz")>>), Bulk(<<Nil, Data("2")>>),
     ErrorReply("ERR TSDB: the key does not exist"),
     ErrorReply("WRONGTYPE Operation against a key holding the wrong kind of value")}

InitGet ==
    /\ target = "get"
    /\ pc = "replied"
    /\ out = <<>>
    /\ opts = TsOptions_default
    /\ optCalls = <<>>
    /\ query = TsRangeQuery_default
    /\ qCalls = <<>>
    /\ fopts = TsFilterOptions_default
    /\ fCalls = <<>>
    /\ reply \in DecodeReplies \cup GetReplies
    /\ result = Err("no reply decoded")
    /\ call = NoCall

\* ts_get of the synchronous or of the asynchronous API receives the reply.
TsGet ==
    /\ target = "get" /\ pc = "replied"
    /\ \E api \in {"sync", "async"} :
          /\ call' = [op |-> "ts_get", api |-> api]
          /\ result' = IF api = "sync" THEN TsCommands_ts_get(reply)
                        ELSE AsyncTsCommands_ts_get(reply)
    /\ pc' = "got"
    /\ UNCHANGED <<target, out, opts, optCalls, query, qCalls, fopts, fCalls, reply>>

NextGet == TsGet

SpecGet == InitGet /\ [][NextGet]_vars

\* ---------------------------------------------------- the caller: commands

\* The builder method a recorded TsOptions call names, applied to self.
TsOptions_call(self, c) ==
    CASE c.op = "retention_time" -> TsOptions_retention_time(self, c.num)
      [] c.op = "uncompressed" -> TsOptions_uncompressed(self, c.flag)
      [] c.op = "labels" -> TsOptions_labels(self, c.pairs)
      [] c.op = "label" -> TsOptions_label(self, c.pairs[1][1], c.pairs[1][2])
      [] c.op = "duplicate_policy" -> TsOptions_duplicate_policy(self, c.pol)
      [] c.op = "chunk_size" -> TsOptions_chunk_size(self, c.num)

RECURSIVE TsOptions_build(_, _)
TsOptions_build(self, calls) ==
    IF calls = <<>> THEN self
    ELSE TsOptions_build(TsOptions_call(self, Head(calls)), Tail(calls))

\* The builder method a recorded TsFilterOptions call names, applied to self.
TsFilterOptions_call(self, c) ==
    CASE c.op = "with_labels" -> TsFilterOptions_with_labels(self, c.flag)
      [] c.op = "equals" -> TsFilterOptions_equals(self, c.name, c.value)
      [] c.op = "not_equals" -> TsFilterOptions_not_equals(self, c.name, c.value)
      [] c.op = "in_set" -> TsFilterOptions_in_set(self, c.name, c.values)
      [] c.op = "not_in_set" -> TsFilterOptions_not_in_set(self, c.name, c.values)
      [] c.op = "has_label" -> TsFilterOptions_has_label(self, c.name)
      [] c.op = "not_has_label" -> TsFilterOptions_not_has_label(self, c.name)

RECURSIVE TsFilterOptions_build(_, _)
TsFilterOptions_build(self, calls) ==
    IF calls = <<>> THEN self
    ELSE TsFilterOptions_build(TsFilterOptions_call(self, Head(calls)), Tail(calls))

\* The arguments the callers pass.
Keys == {"my_engine"}
DestKeys == {"my_engine_avg"}
TimestampArgs == {IntArg(1234), StrArg("*")}
ValueArgs == {IntArg(1), F64Arg(15)}
FromTimestamps == {IntArg(0), StrArg("-")}
ToTimestamps == {IntArg(5678), StrArg("+")}
CountOptions == {None, Some(IntArg(1))}
AggregationKinds ==
    {"Avg", "Sum", "Min", "Max", "Range", "Count", "First", "Last", "StdP", "StdS",
     "VarP", "VarS", "Twa"}
BucketDurations == {10, 5000}
AggregationArgs == {Agg(kind, v) : kind \in AggregationKinds, v \in BucketDurations}
AggregationOptions == {None} \cup {Some(a) : a \in AggregationArgs}
SampleLists ==
    {<<>>, << <<"my_engine", IntArg(1234), F64Arg(15)>> >>,
     << <<"my_engine", IntArg(1234), F64Arg(15)>>, <<"my_engine_avg", StrArg("*"), IntArg(1)>> >>}

\* The TsOptions the callers pass: each of the five builder calls made or not.
OptionCallsOf(ops) ==
    (IF "uncompressed" \in ops THEN <<OCall("uncompressed", 0, TRUE, Block, <<>>)>> ELSE <<>>)
        \o (IF "label" \in ops
            THEN <<OCall("label", 0, FALSE, Block, << <<"component", "engine">> >>)>> ELSE <<>>)
        \o (IF "chunk_size" \in ops
            THEN <<OCall("chunk_size", 8192, FALSE, Block, <<>>)>> ELSE <<>>)
        \o (IF "duplicate_policy" \in ops
            THEN <<OCall("duplicate_policy", 0, FALSE, Last, <<>>)>> ELSE <<>>)
        \o (IF "retention_time" \in ops
            THEN <<OCall("retention_time", 60000, FALSE, Block, <<>>)>> ELSE <<>>)

OptionCalls ==
    {OptionCallsOf(ops) :
        ops \in SUBSET {"uncompressed", "label", "chunk_size", "duplicate_policy",
                        "retention_time"}}

\* The TsFilterOptions the callers pass.
FilterCalls ==
    {<<>>,
     <<FCall("equals", "sensor", "temperature", <<>>, FALSE)>>,
     <<FCall("equals", "sensor", "temperature", <<>>, FALSE),
       FCall("with_labels", "", "", <<>>, TRUE)>>,
     <<FCall("with_labels", "", "", <<>>, TRUE),
       FCall("not_equals", "sensor", "temperature", <<>>, FALSE),
       FCall("in_set", "region", "", <<"us", "eu">>, FALSE)>>,
     <<FCall("has_label", "region", "", <<>>, FALSE),
       FCall("with_labels", "", "", <<>>, FALSE)>>}

\* The arguments a method does not take.
NoArg == StrArg("")
NoAgg == None

Ready == target = "cmd" /\ pc = "ready"

\* The APIs that have the method.
ApisOf(op) ==
    {api \in {"sync", "async"} :
        \/ api = "sync" /\ op \in TsCommands_methods
        \/ api = "async" /\ op \in AsyncTsCommands_methods}

\* The command the method of the API builds.
CommandOf(c) == IF c.api = "sync" THEN TsCommands_cmd(c) ELSE AsyncTsCommands_cmd(c)

CmdFrame == UNCHANGED <<target, query, qCalls, reply, result>>
NoOptions == UNCHANGED <<opts, optCalls>>
NoFilter == UNCHANGED <<fopts, fCalls>>

CmdCreate ==
    /\ Ready
    /\ \E api \in ApisOf("ts_create"), key \in Keys, calls \in OptionCalls :
          LET options == TsOptions_build(TsOptions_default, calls)
              c == CmdCall(api, "ts_create", key, "", NoArg, NoArg, NoArg, NoArg, None, NoAgg,
                           <<>>, options, TsFilterOptions_default)
          IN /\ call' = c /\ out' = CommandOf(c)
             /\ opts' = options /\ optCalls' = calls
    /\ pc' = "sent"
    /\ CmdFrame /\ NoFilter

CmdAlter ==
    /\ Ready
    /\ \E api \in ApisOf("ts_alter"), key \in Keys, calls \in OptionCalls :
          LET options == TsOptions_build(TsOptions_default, calls)
              c == CmdCall(api, "ts_alter", key, "", NoArg, NoArg, NoArg, NoArg, None, NoAgg,
                           <<>>, options, TsFilterOptions_default)
          IN /\ call' = c /\ out' = CommandOf(c)
             /\ opts' = options /\ optCalls' = calls
    /\ pc' = "sent"
    /\ CmdFrame /\ NoFilter

CmdAdd ==
    /\ Ready
    /\ \E api \in ApisOf("ts_add"), key \in Keys, ts \in TimestampArgs, value \in ValueArgs :
          LET c == CmdCall(api, "ts_add", key, "", ts, value, NoArg, NoArg, None, NoAgg,
                           <<>>, TsOptions_default, TsFilterOptions_default)
          IN call' = c /\ out' = CommandOf(c)
    /\ pc' = "sent"
    /\ CmdFrame /\ NoOptions /\ NoFilter

CmdAddNow ==
    /\ Ready
    /\ \E api \in ApisOf("ts_add_now"), key \in Keys, value \in ValueArgs :
          LET c == CmdCall(api, "ts_add_now", key, "", NoArg, value, NoArg, NoArg, None, NoAgg,
                           <<>>, TsOptions_default, TsFilterOptions_default)
          IN call' = c /\ out' = CommandOf(c)
    /\ pc' = "sent"
    /\ CmdFrame /\ NoOptions /\ NoFilter

CmdAddCreate ==
    /\ Ready
    /\ \E api \in ApisOf("ts_add_create"), key \in Keys, ts \in TimestampArgs,
          value \in ValueArgs, calls \in OptionCalls :
          LET options == TsOptions_build(TsOptions_default, calls)
              c == CmdCall(api, "ts_add_create", key, "", ts, value, NoArg, NoArg, None, NoAgg,
                           <<>>, options, TsFilterOptions_default)
          IN /\ call' = c /\ out' = CommandOf(c)
             /\ opts' = options /\ optCalls' = calls
    /\ pc' = "sent"
    /\ CmdFrame /\ NoFilter

CmdMadd ==
    /\ Ready
    /\ \E api \in ApisOf("ts_madd"), values \in SampleLists :
          LET c == CmdCall(api, "ts_madd", "", "", NoArg, NoArg, NoArg, NoArg, None, NoAgg,
                           values, TsOptions_default, TsFilterOptions_default)
          IN call' = c /\ out' = CommandOf(c)
    /\ pc' = "sent"
    /\ CmdFrame /\ NoOptions /\ NoFilter

CmdIncrbyNow ==
    /\ Ready
    /\ \E api \in ApisOf("ts_incrby_now"), key \in Keys, value \in ValueArgs :
          LET c == CmdCall(api, "ts_incrby_now", key, "", NoArg, value, NoArg, NoArg, None,
                           NoAgg, <<>>, TsOptions_default, TsFilterOptions_default)
          IN call' = c /\ out' = CommandOf(c)
    /\ pc' = "sent"
    /\ CmdFrame /\ NoOptions /\ NoFilter

CmdIncrby ==
    /\ Ready
    /\ \E api \in ApisOf("ts_incrby"), key \in Keys, ts \in TimestampArgs, value \in ValueArgs :
          LET c == CmdCall(api, "ts_incrby", key, "", ts, value, NoArg, NoArg, None, NoAgg,
                           <<>>, TsOptions_default, TsFilterOptions_default)
          IN call' = c /\ out' = CommandOf(c)
    /\ pc' = "sent"
    /\ CmdFrame /\ NoOptions /\ NoFilter

CmdIncrbyCreate ==
    /\ Ready
    /\ \E api \in ApisOf("ts_incrby_create"), key \in Keys, ts \in TimestampArgs,
          value \in ValueArgs, calls \in OptionCalls :
          LET options == TsOptions_build(TsOptions_default, calls)
              c == CmdCall(api, "ts_incrby_create", key, "", ts, value, NoArg, NoArg, None,
                           NoAgg, <<>>, options, TsFilterOptions_default)
          IN /\ call' = c /\ out' = CommandOf(c)
             /\ opts' = options /\ optCalls' = calls
    /\ pc' = "sent"
    /\ CmdFrame /\ NoFilter

CmdDecrbyNow ==
    /\ Ready
    /\ \E api \in ApisOf("ts_decrby_now"), key \in Keys, value \in ValueArgs :
          LET c == CmdCall(api, "ts_decrby_now", key, "", NoArg, value, NoArg, NoArg, None,
                           NoAgg, <<>>, TsOptions_default, TsFilterOptions_default)
          IN call' = c /\ out' = CommandOf(c)
    /\ pc' = "sent"
    /\ CmdFrame /\ NoOptions /\ NoFilter

CmdDecrby ==
    /\ Ready
    /\ \E api \in ApisOf("ts_decrby"), key \in Keys, ts \in TimestampArgs, value \in ValueArgs :
          LET c == CmdCall(api, "ts_decrby", key, "", ts, value, NoArg, NoArg, None, NoAgg,
                           <<>>, TsOptions_default, TsFilterOptions_default)
          IN call' = c /\ out' = CommandOf(c)
    /\ pc' = "sent"
    /\ CmdFrame /\ NoOptions /\ NoFilter

CmdDecrbyCreate ==
    /\ Ready
    /\ \E api \in ApisOf("ts_decrby_create"), key \in Keys, ts \in TimestampArgs,
          value \in ValueArgs, calls \in OptionCalls :
          LET options == TsOptions_build(TsOptions_default, calls)
              c == CmdCall(api, "ts_decrby_create", key, "", ts, value, NoArg, NoArg, None,
                           NoAgg, <<>>, options, TsFilterOptions_default)
          IN /\ call' = c /\ out' = CommandOf(c)
             /\ opts' = options /\ optCalls' = calls
    /\ pc' = "sent"
    /\ CmdFrame /\ NoFilter

CmdCreaterule ==
    /\ Ready
    /\ \E api \in ApisOf("ts_createrule"), key \in Keys, dest \in DestKeys,
          agg \in AggregationArgs :
          LET c == CmdCall(api, "ts_createrule", key, dest, NoArg, NoArg, NoArg, NoArg, None,
                           agg, <<>>, TsOptions_default, TsFilterOptions_default)
          IN call' = c /\ out' = CommandOf(c)
    /\ pc' = "sent"
    /\ CmdFrame /\ NoOptions /\ NoFilter

CmdDeleterule ==
    /\ Ready
    /\ \E api \in ApisOf("ts_deleterule"), key \in Keys, dest \in DestKeys :
          LET c == CmdCall(api, "ts_deleterule", key, dest, NoArg, NoArg, NoArg, NoArg, None,
                           NoAgg, <<>>, TsOptions_default, TsFilterOptions_default)
          IN call' = c /\ out' = CommandOf(c)
    /\ pc' = "sent"
    /\ CmdFrame /\ NoOptions /\ NoFilter

CmdRange ==
    /\ Ready
    /\ \E api \in ApisOf("ts_range"), key \in Keys, from \in FromTimestamps,
          to \in ToTimestamps, count \in CountOptions, agg \in AggregationOptions :
          LET c == CmdCall(api, "ts_range", key, "", NoArg, NoArg, from, to, count, agg,
                           <<>>, TsOptions_default, TsFilterOptions_default)
          IN call' = c /\ out' = CommandOf(c)
    /\ pc' = "sent"
    /\ CmdFrame /\ NoOptions /\ NoFilter

CmdMrange ==
    /\ Ready
    /\ \E api \in ApisOf("ts_mrange"), from \in FromTimestamps, to \in ToTimestamps,
          count \in CountOptions, agg \in AggregationOptions, calls \in FilterCalls :
          LET filter == TsFilterOptions_build(TsFilterOptions_default, calls)
              c == CmdCall(api, "ts_mrange", "", "", NoArg, NoArg, from, to, count, agg,
                           <<>>, TsOptions_default, filter)
          IN /\ call' = c /\ out' = CommandOf(c)
             /\ fopts' = filter /\ fCalls' = calls
    /\ pc' = "sent"
    /\ CmdFrame /\ NoOptions

CmdGet ==
    /\ Ready
    /\ \E api \in ApisOf("ts_get"), key \in Keys :
          LET c == CmdCall(api, "ts_get", key, "", NoArg, NoArg, NoArg, NoArg, None, NoAgg,
                           <<>>, TsOptions_default, TsFilterOptions_default)
          IN call' = c /\ out' = CommandOf(c)
    /\ pc' = "sent"
    /\ CmdFrame /\ NoOptions /\ NoFilter

CmdMget ==
    /\ Ready
    /\ \E api \in ApisOf("ts_mget"), calls \in FilterCalls :
          LET filter == TsFilterOptions_build(TsFilterOptions_default, calls)
              c == CmdCall(api, "ts_mget", "", "", NoArg, NoArg, NoArg, NoArg, None, NoAgg,
                           <<>>, TsOptions_default, filter)
          IN /\ call' = c /\ out' = CommandOf(c)
             /\ fopts' = filter /\ fCalls' = calls
    /\ pc' = "sent"
    /\ CmdFrame /\ NoOptions

CmdInfo ==
    /\ Ready
    /\ \E api \in ApisOf("ts_info"), key \in Keys :
          LET c == CmdCall(api, "ts_info", key, "", NoArg, NoArg, NoArg, NoArg, None, NoAgg,
                           <<>>, TsOptions_default, TsFilterOptions_default)
          IN call' = c /\ out' = CommandOf(c)
    /\ pc' = "sent"
    /\ CmdFrame /\ NoOptions /\ NoFilter

CmdQueryindex ==
    /\ Ready
    /\ \E api \in ApisOf("ts_queryindex"), calls \in FilterCalls :
          LET filter == TsFilterOptions_build(TsFilterOptions_default, calls)
              c == CmdCall(api, "ts_queryindex", "", "", NoArg, NoArg, NoArg, NoArg, None,
                           NoAgg, <<>>, TsOptions_default, filter)
          IN /\ call' = c /\ out' = CommandOf(c)
             /\ fopts' = filter /\ fCalls' = calls
    /\ pc' = "sent"
    /\ CmdFrame /\ NoOptions

NextCmd ==
    \/ CmdCreate
    \/ CmdAlter
    \/ CmdAdd
    \/ CmdAddNow
    \/ CmdAddCreate
    \/ CmdMadd
    \/ CmdIncrbyNow
    \/ CmdIncrby
    \/ CmdIncrbyCreate
    \/ CmdDecrbyNow
    \/ CmdDecrby
    \/ CmdDecrbyCreate
    \/ CmdCreaterule
    \/ CmdDeleterule
    \/ CmdRange
    \/ CmdMrange
    \/ CmdGet
    \/ CmdMget
    \/ CmdInfo
    \/ CmdQueryindex

InitCmd ==
    /\ target = "cmd"
    /\ pc = "ready"
    /\ out = <<>>
    /\ opts = TsOptions_default
    /\ optCalls = <<>>
    /\ query = TsRangeQuery_default
    /\ qCalls = <<>>
    /\ fopts = TsFilterOptions_default
    /\ fCalls = <<>>
    /\ reply = Nil
    /\ result = Err("no reply decoded")
    /\ call = NoCall

SpecCmd == InitCmd /\ [][NextCmd]_vars

\* ---------------------------------------------------- the caller: Cmd::arg

\* The kinds of builder a command takes as an argument.
BuilderKinds ==
    {"TsOptions", "TsRangeQuery", "TsFilterOptions", "TsAggregationType", "TsDuplicatePolicy"}

\* The tokens already in the command, and the builders the callers hold.
ArgPrefixes == {<<>>, <<"TS.ADD", "my_engine">>}
ArgOptions ==
    {TsOptions_build(TsOptions_default, OptionCallsOf(ops)) :
        ops \in {{}, {"uncompressed"},
                 {"uncompressed", "label", "chunk_size", "duplicate_policy", "retention_time"}}}
ArgQueries ==
    {TsRangeQuery_default,
     TsRangeQuery_aggregation_type(
         TsRangeQuery_count(TsRangeQuery_from(TsRangeQuery_default, 1234), 1),
         Agg("Avg", 5000))}
ArgFilters == {TsFilterOptions_build(TsFilterOptions_default, calls) : calls \in FilterCalls}
ArgAggregations == {Agg("Avg", 5000), Agg("Twa", 10)}
ArgPolicies == {Block, Last, Other("xyz")}

\* The tokens appended to o when it became p.
Appended(o, p) == SubSeq(p, Len(o) + 1, Len(p))

InitArgs ==
    /\ target = "args"
    /\ pc = "ready"
    /\ out \in ArgPrefixes
    /\ opts \in ArgOptions
    /\ optCalls = <<>>
    /\ query \in ArgQueries
    /\ qCalls = <<>>
    /\ fopts \in ArgFilters
    /\ fCalls = <<>>
    /\ reply = Nil
    /\ result = Err("no reply decoded")
    /\ \E policy \in ArgPolicies, aggregation_type \in ArgAggregations :
          call = [op |-> "none", n |-> 0, policy |-> policy,
                  aggregation_type |-> aggregation_type,
                  appended |-> [kind \in BuilderKinds |-> None]]

ArgsFrame ==
    UNCHANGED <<target, opts, optCalls, query, qCalls, fopts, fCalls, reply, result>>

\* cmd.arg(&options)
ArgTsOptions ==
    /\ target = "args" /\ call.n < MaxArgs
    /\ out' = TsOptions_write_redis_args(opts, out)
    /\ call' = [call EXCEPT !.op = "TsOptions", !.n = @ + 1,
                            !.appended["TsOptions"] = Some(Appended(out, out'))]
    /\ pc' = "appended"
    /\ ArgsFrame

\* cmd.arg(&query)
ArgTsRangeQuery ==
    /\ target = "args" /\ call.n < MaxArgs
    /\ out' = TsRangeQuery_write_redis_args(query, out)
    /\ call' = [call EXCEPT !.op = "TsRangeQuery", !.n = @ + 1,
                            !.appended["TsRangeQuery"] = Some(Appended(out, out'))]
    /\ pc' = "appended"
    /\ ArgsFrame

\* cmd.arg(&filter_options)
ArgTsFilterOptions ==
    /\ target = "args" /\ call.n < MaxArgs
    /\ out' = TsFilterOptions_write_redis_args(fopts, out)
    /\ call' = [call EXCEPT !.op = "TsFilterOptions", !.n = @ + 1,
                            !.appended["TsFilterOptions"] = Some(Appended(out, out'))]
    /\ pc' = "appended"
    /\ ArgsFrame

\* cmd.arg(&aggregation_type)
ArgTsAggregationType ==
    /\ target = "args" /\ call.n < MaxArgs
    /\ out' = TsAggregationType_write_redis_args(call.aggregation_type, out)
    /\ call' = [call EXCEPT !.op = "TsAggregationType", !.n = @ + 1,
                            !.appended["TsAggregationType"] = Some(Appended(out, out'))]
    /\ pc' = "appended"
    /\ ArgsFrame

\* cmd.arg(&policy)
ArgTsDuplicatePolicy ==
    /\ target = "args" /\ call.n < MaxArgs
    /\ out' = TsDuplicatePolicy_write_redis_args(call.policy, out)
    /\ call' = [call EXCEPT !.op = "TsDuplicatePolicy", !.n = @ + 1,
                            !.appended["TsDuplicatePolicy"] = Some(Appended(out, out'))]
    /\ pc' = "appended"
    /\ ArgsFrame

NextArgs ==
    \/ ArgTsOptions
    \/ ArgTsRangeQuery
    \/ ArgTsFilterOptions
    \/ ArgTsAggregationType
    \/ ArgTsDuplicatePolicy

SpecArgs == InitArgs /\ [][NextArgs]_vars

\* --------------------------------------------------- the caller: mutators

\* Builders on which every scalar mutator was called before, with values the
\* later calls do not pass.
MutOptions ==
    {TsOptions_default,
     TsOptions_chunk_size(
         TsOptions_duplicate_policy(
             TsOptions_label(
                 TsOptions_uncompressed(TsOptions_retention_time(TsOptions_default, 1000), TRUE),
                 "a", "b"),
             Block),
         4096)}

MutQueries ==
    {TsRangeQuery_default,
     TsRangeQuery_empty(
         TsRangeQuery_bucket_timestamp(
             TsRangeQuery_aggregation_type(
                 TsRangeQuery_align(
                     TsRangeQuery_count(
                         TsRangeQuery_filter_by_value(
                             TsRangeQuery_filter_by_ts(
                                 TsRangeQuery_latest(
                                     TsRangeQuery_to(TsRangeQuery_from(TsRangeQuery_default, 0),
                                                     10),
                                     TRUE),
                                 <<1, 5678>>),
                             20, 30),
                         12),
                     AlignEnd),
                 Agg("Sum", 1)),
             "Low"),
         TRUE)}

InitMut ==
    /\ target = "mut"
    /\ pc = "build"
    /\ out = <<>>
    /\ opts \in MutOptions
    /\ optCalls = <<>>
    /\ query \in MutQueries
    /\ qCalls = <<>>
    /\ fopts = TsFilterOptions_default
    /\ fCalls = <<>>
    /\ reply = Nil
    /\ result = Err("no reply decoded")
    /\ call = NoCall

NextMut ==
    \/ OptRetentionTime
    \/ OptUncompressed
    \/ OptDuplicatePolicy
    \/ OptChunkSize
    \/ QFrom
    \/ QTo
    \/ QLatest
    \/ QFilterByTs
    \/ QFilterByValue
    \/ QCount
    \/ QAlign
    \/ QAggregationType
    \/ QBucketTimestamp
    \/ QEmpty

SpecMut == InitMut /\ [][NextMut]_vars

\* ------------------------------------------------------------ the whole caller

Init ==
    \/ \E t \in {"opts", "labels", "query", "filter"} : InitFor(t)
    \/ InitQueryEnc
    \/ InitDecode
    \/ InitGet
    \/ InitCmd
    \/ InitArgs
    \/ InitMut

Next ==
    \/ NextOpts
    \/ NextLabels
    \/ NextQuery
    \/ NextFilter
    \/ NextDecode
    \/ NextGet
    \/ NextCmd
    \/ NextArgs
    \/ NextMut

Spec == Init /\ [][Next]_vars

\* ======================================================================
\* Properties of the TsOptions encoder (checked under SpecOpts)
\* ======================================================================

\* The position of the last call of the method op in a history, 0 when none.
LastCall(calls, op) ==
    IF \E i \in 1..Len(calls) : calls[i].op = op
    THEN CHOOSE i \in 1..Len(calls) :
            calls[i].op = op /\ \A j \in (i + 1)..Len(calls) : calls[j].op # op
    ELSE 0

\* The decimal text of the numbers the callers pass, written out.
DecimalText(n) ==
    CASE n = 60000 -> "60000"
      [] n = 8192 -> "8192"
      [] n = 5000 -> "5000"
      [] n = 1000 -> "1000"
      [] n = 1234 -> "1234"
      [] n = 5678 -> "5678"
      [] n = 123 -> "123"
      [] n = 12 -> "12"
      [] n = 10 -> "10"
      [] n = 1 -> "1"
      [] n = 0 -> "0"
      [] n = -5 -> "-5"

PolicyText(p) ==
    CASE p.tag = "Block" -> "BLOCK"
      [] p.tag = "First" -> "FIRST"
      [] p.tag = "Last" -> "LAST"
      [] p.tag = "Min" -> "MIN"
      [] p.tag = "Max" -> "MAX"
      [] p.tag = "Other" -> p.s

\* The label pairs a history leaves: those of the most recent labels(list)
\* call, then those of the label calls made after it.
PairsOfCalls(calls) ==
    LET k == LastCall(calls, "labels")
        later == SelectSeq(SubSeq(calls, k + 1, Len(calls)), LAMBDA c : c.op = "label")
    IN (IF k = 0 THEN <<>> ELSE calls[k].pairs) \o [i \in 1..Len(later) |-> later[i].pairs[1]]

\* name1, value1, name2, value2, ...
AlternatingTokens(pairs) ==
    [i \in 1..(2 * Len(pairs)) |-> pairs[(i + 1) \div 2][IF i % 2 = 1 THEN 1 ELSE 2]]

LabelsClauseOf(pairs) ==
    IF pairs = <<>> THEN <<>> ELSE <<"LABELS">> \o AlternatingTokens(pairs)

RetentionClauseOf(calls) ==
    LET k == LastCall(calls, "retention_time")
    IN IF k = 0 THEN <<>> ELSE <<"RETENTION", DecimalText(calls[k].num)>>

UncompressedClauseOf(calls) ==
    LET k == LastCall(calls, "uncompressed")
    IN IF k # 0 /\ calls[k].flag THEN <<"UNCOMPRESSED">> ELSE <<>>

PolicyClauseOf(calls) ==
    LET k == LastCall(calls, "duplicate_policy")
    IN IF k = 0 THEN <<>> ELSE <<"DUPLICATE_POLICY", PolicyText(calls[k].pol)>>

ChunkSizeClauseOf(calls) ==
    LET k == LastCall(calls, "chunk_size")
    IN IF k = 0 THEN <<>> ELSE <<"CHUNK_SIZE", DecimalText(calls[k].num)>>

OptionsEncoded == target \in {"opts", "labels"} /\ pc # "build"

ScenarioTokens ==
    <<"RETENTION", "60000", "DUPLICATE_POLICY", "LAST", "CHUNK_SIZE", "8192",
      "LABELS", "component", "engine">>

ScenarioCalls(calls) ==
    /\ LastCall(calls, "retention_time") # 0
    /\ calls[LastCall(calls, "retention_time")].num = 60000
    /\ UncompressedClauseOf(calls) = <<>>
    /\ LastCall(calls, "duplicate_policy") # 0
    /\ calls[LastCall(calls, "duplicate_policy")].pol = Last
    /\ LastCall(calls, "chunk_size") # 0
    /\ calls[LastCall(calls, "chunk_size")].num = 8192
    /\ PairsOfCalls(calls) = <<<<"component", "engine">>>>

\* C1: whatever builder calls were made and in whatever order, the encoded
\* TsOptions is [RETENTION t] [UNCOMPRESSED] [DUPLICATE_POLICY p] [CHUNK_SIZE c]
\* [LABELS name value ...], each clause present iff its field is set (the flag
\* true, the labels present); retention 60000, uncompressed false, policy Last,
\* chunk size 8192 and the label (component, engine) give exactly
\* RETENTION 60000 DUPLICATE_POLICY LAST CHUNK_SIZE 8192 LABELS component engine.
C1_OptionsEncoding ==
    OptionsEncoded =>
        /\ out = RetentionClauseOf(optCalls) \o UncompressedClauseOf(optCalls)
                    \o PolicyClauseOf(optCalls) \o ChunkSizeClauseOf(optCalls)
                    \o LabelsClauseOf(PairsOfCalls(optCalls))
        /\ ScenarioCalls(optCalls) => out = ScenarioTokens

\* The scenario, built with the label first and uncompressed(false) called.
C1_Witness ==
    /\ target = "opts" /\ pc = "encoded"
    /\ Len(optCalls) = 5
    /\ optCalls[1].op = "label"
    /\ optCalls[2].op = "chunk_size"
    /\ \E i \in 1..Len(optCalls) : optCalls[i].op = "uncompressed" /\ ~optCalls[i].flag
    /\ out = ScenarioTokens

\* The label pairs added by label calls alone (no labels(list) call).
LabelCallPairs(calls) ==
    LET ls == SelectSeq(calls, LAMBDA c : c.op = "label")
    IN [i \in 1..Len(ls) |-> ls[i].pairs[1]]

\* The last n tokens of a sequence.
LastTokens(o, n) == SubSeq(o, Len(o) - n + 1, Len(o))

\* C5: the pairs added by repeated label calls, repeated names included, are
\* all listed by the LABELS clause as name, value in call order; and decoding
\* the TsInfo reply that lists them in that order yields the same list of pairs.
C5_LabelOrderRoundTrip ==
    (target = "labels" /\ pc = "info_decoded" /\ LastCall(optCalls, "labels") = 0) =>
        LET pairs == LabelCallPairs(optCalls)
            n == 2 * Len(pairs)
        IN /\ pairs = <<>> => \A i \in 1..Len(out) : out[i] # "LABELS"
           /\ pairs # <<>> =>
                 /\ Len(out) >= n + 1
                 /\ LastTokens(out, n + 1) = <<"LABELS">> \o AlternatingTokens(pairs)
           /\ result.tag = "Ok"
           /\ result.val.labels = pairs

\* Three label calls that repeat a name, and a pair, decoded again.
C5_Witness ==
    /\ target = "labels" /\ pc = "info_decoded"
    /\ LastCall(optCalls, "labels") = 0
    /\ LabelCallPairs(optCalls) =
          <<<<"component", "engine">>, <<"component", "spare">>, <<"component", "engine">>>>
    /\ result.tag = "Ok"
    /\ Len(result.val.labels) = 3

\* C6: the LABELS clause lists the pairs of the most recent labels(list) call,
\* then the pairs of the label calls made after it; labels(list) discards the
\* labels before it and labels(empty) leaves no LABELS token until a later label.
C6_LabelsReplace ==
    OptionsEncoded =>
        LET pairs == PairsOfCalls(optCalls)
            n == 2 * Len(pairs)
        IN /\ pairs = <<>> => \A i \in 1..Len(out) : out[i] # "LABELS"
           /\ pairs # <<>> =>
                 /\ Len(out) >= n + 1
                 /\ LastTokens(out, n + 1) = <<"LABELS">> \o AlternatingTokens(pairs)
                 /\ \A i \in 1..(Len(out) - n - 1) : out[i] # "LABELS"

\* label, labels(list), labels(empty), label: only the last label is encoded.
C6_Witness ==
    /\ target = "opts" /\ pc = "encoded"
    /\ Len(optCalls) = 4
    /\ optCalls[1].op = "label" /\ optCalls[1].pairs = <<<<"component", "spare">>>>
    /\ optCalls[2].op = "labels" /\ optCalls[2].pairs # <<>>
    /\ optCalls[3].op = "labels" /\ optCalls[3].pairs = <<>>
    /\ optCalls[4].op = "label"
    /\ out = <<"LABELS", "component", "engine">>

\* ======================================================================
\* Properties of the TsRangeQuery encoder (SpecQueryEnc, SpecQuery)
\* ======================================================================

\* The text of the f64 arguments the callers pass (1.0 and 5.5, in tenths).
F64Text(t) ==
    CASE t = 10 -> "1.0"
      [] t = 55 -> "5.5"

AlignText(a) ==
    CASE a.tag = "Start" -> "-"
      [] a.tag = "End" -> "+"
      [] a.tag = "Ts" -> DecimalText(a.ts)

AggKindText(a) ==
    CASE a.kind = "Avg" -> "avg"
      [] a.kind = "Twa" -> "twa"

BucketText(b) ==
    CASE b = "Low" -> "-"
      [] b = "High" -> "+"
      [] b = "Mid" -> "~"

FromClauseOf(calls) ==
    LET k == LastCall(calls, "from")
    IN IF k = 0 THEN <<"-">> ELSE <<DecimalText(calls[k].int)>>

ToClauseOf(calls) ==
    LET k == LastCall(calls, "to")
    IN IF k = 0 THEN <<"+">> ELSE <<DecimalText(calls[k].int)>>

LatestClauseOf(calls) ==
    LET k == LastCall(calls, "latest")
    IN IF k # 0 /\ calls[k].flag THEN <<"LATEST">> ELSE <<>>

FilterByTsClauseOf(calls) ==
    LET k == LastCall(calls, "filter_by_ts")
    IN IF k = 0 \/ calls[k].ints = <<>> THEN <<>>
       ELSE <<"FILTER_BY_TS">> \o [i \in 1..Len(calls[k].ints) |-> DecimalText(calls[k].ints[i])]

FilterByValueClauseOf(calls) ==
    LET k == LastCall(calls, "filter_by_value")
    IN IF k = 0 THEN <<>>
       ELSE <<"FILTER_BY_VALUE", F64Text(calls[k].range[1]), F64Text(calls[k].range[2])>>

CountClauseOf(calls) ==
    LET k == LastCall(calls, "count")
    IN IF k = 0 THEN <<>> ELSE <<"COUNT", DecimalText(calls[k].int)>>

AggregationClauseOf(calls) ==
    LET g == LastCall(calls, "aggregation_type")
        a == LastCall(calls, "align")
        b == LastCall(calls, "bucket_timestamp")
        e == LastCall(calls, "empty")
    IN IF g = 0 THEN <<>>
       ELSE (IF a = 0 THEN <<>> ELSE <<"ALIGN", AlignText(calls[a].align)>>)
               \o <<"AGGREGATION", AggKindText(calls[g].agg), DecimalText(calls[g].agg.bucket)>>
               \o (IF b = 0 THEN <<>> ELSE <<"BUCKETTIMESTAMP", BucketText(calls[b].bkt)>>)
               \o (IF e # 0 /\ calls[e].flag THEN <<"EMPTY">> ELSE <<>>)

QueryEncoded == target \in {"query", "query_enc"} /\ pc = "encoded"

\* C2: the encoded TsRangeQuery is from (or '-'), to (or '+'), [LATEST],
\* [FILTER_BY_TS ts...], [FILTER_BY_VALUE min max], [COUNT n] and, when an
\* aggregation is set, [ALIGN a] AGGREGATION kind bucket [BUCKETTIMESTAMP b]
\* [EMPTY], in this order, each optional clause present iff its field is set;
\* the default query encodes to '-' '+'.
C2_QueryEncoding ==
    QueryEncoded =>
        /\ out = FromClauseOf(qCalls) \o ToClauseOf(qCalls) \o LatestClauseOf(qCalls)
                    \o FilterByTsClauseOf(qCalls) \o FilterByValueClauseOf(qCalls)
                    \o CountClauseOf(qCalls) \o AggregationClauseOf(qCalls)
        /\ query = TsRangeQuery_default => out = <<"-", "+">>

\* Every field set: the full interleaving.
C2_Witness ==
    /\ target = "query_enc" /\ pc = "encoded"
    /\ Len(qCalls) = 10
    /\ out = <<"1234", "5678", "LATEST", "FILTER_BY_TS", "12", "123", "FILTER_BY_VALUE",
               "1.0", "5.5", "COUNT", "1", "ALIGN", "-", "AGGREGATION", "avg", "5000",
               "BUCKETTIMESTAMP", "+", "EMPTY">>

\* C3: a TsRangeQuery without an aggregation type encodes to tokens that hold
\* none of ALIGN, BUCKETTIMESTAMP, EMPTY, whatever the other fields are.
C3_NoAggregationNoSubClauses ==
    (QueryEncoded /\ query.aggregation_type = None) =>
        \A i \in 1..Len(out) : out[i] \notin {"ALIGN", "BUCKETTIMESTAMP", "EMPTY"}

\* align, bucket_timestamp and empty(true) all given, and no aggregation.
C3_Witness ==
    /\ target = "query_enc" /\ pc = "encoded"
    /\ query.aggregation_type = None
    /\ IsSome(query.align) /\ IsSome(query.bucket_timestamp) /\ query.empty
    /\ Len(qCalls) = 9
    /\ Len(out) = 11

\* The orders in which n calls can be made.
Orders(n) == {f \in [1..n -> 1..n] : \A i, j \in 1..n : f[i] = f[j] => i = j}

EachMethodOnce(calls) ==
    \A i, j \in 1..Len(calls) : calls[i].op = calls[j].op => i = j

\* C4: builder calls that set each field once encode to the same tokens in
\* whatever order they are made (align before or after aggregation_type).
C4_CallOrderIrrelevant ==
    (target = "query" /\ pc = "encoded" /\ EachMethodOnce(qCalls)) =>
        \A f \in Orders(Len(qCalls)) :
            TsRangeQuery_write_redis_args(
                TsRangeQuery_build(TsRangeQuery_default,
                                   [i \in 1..Len(qCalls) |-> qCalls[f[i]]]), <<>>) = out

\* align was called before aggregation_type, and ALIGN is encoded.
C4_Witness ==
    /\ target = "query" /\ pc = "encoded"
    /\ Len(qCalls) = 3
    /\ qCalls[1].op = "align"
    /\ qCalls[2].op = "aggregation_type"
    /\ qCalls[3].op = "count"
    /\ out = <<"-", "+", "COUNT", "1", "ALIGN", "1000", "AGGREGATION", "twa", "10">>

\* ======================================================================
\* Properties of the TsFilterOptions encoder (SpecFilter)
\* ======================================================================

SetText(values) ==
    CASE values = <<>> -> "()"
      [] values = <<"us">> -> "(us)"
      [] values = <<"us", "eu">> -> "(us,eu)"

\* The token a recorded filter call stands for.
ExpressionText(c) ==
    CASE c.op = "equals" -> (c.name \o "=") \o c.value
      [] c.op = "not_equals" -> (c.name \o "!=") \o c.value
      [] c.op = "in_set" -> (c.name \o "=") \o SetText(c.values)
      [] c.op = "not_in_set" -> (c.name \o "!=") \o SetText(c.values)
      [] c.op = "has_label" -> c.name \o "!="
      [] c.op = "not_has_label" -> c.name \o "="

ExpressionCalls(calls) == SelectSeq(calls, LAMBDA c : c.op # "with_labels")

WithLabelsAsked(calls) ==
    LET k == LastCall(calls, "with_labels") IN k # 0 /\ calls[k].flag

FilterEncoded == target = "filter" /\ pc = "encoded"

\* C7: the encoded TsFilterOptions is WITHLABELS iff the last with_labels call
\* passed true, then FILTER, then one token per expression in the order added;
\* with no expression it is FILTER alone.
C7_FilterEncoding ==
    FilterEncoded =>
        LET exprs == ExpressionCalls(fCalls)
            off == IF WithLabelsAsked(fCalls) THEN 1 ELSE 0
        IN /\ Len(out) = off + 1 + Len(exprs)
           /\ WithLabelsAsked(fCalls) <=> out[1] = "WITHLABELS"
           /\ out[off + 1] = "FILTER"
           /\ \A i \in 1..Len(exprs) : out[off + 1 + i] = ExpressionText(exprs[i])
           /\ exprs = <<>> => out \in {<<"FILTER">>, <<"WITHLABELS", "FILTER">>}

\* with_labels(true) called between two expressions.
C7_Witness ==
    /\ FilterEncoded
    /\ Len(fCalls) = 3
    /\ fCalls[1].op = "not_equals"
    /\ fCalls[2].op = "with_labels" /\ fCalls[2].flag
    /\ fCalls[3].op = "in_set"
    /\ out = <<"WITHLABELS", "FILTER", "sensor!=temperature", "region=(us)">>

\* C8: equals(n, v) is the one token n=v, not_equals(n, v) is n!=v,
\* in_set(n, vs) is n=(v1,...,vk), not_in_set(n, vs) is n!=(v1,...,vk);
\* equals(sensor, temperature).in_set(region, [us, eu]) encodes to
\* FILTER sensor=temperature region=(us,eu).
C8_FilterRendering ==
    FilterEncoded =>
        LET exprs == ExpressionCalls(fCalls)
            tokens == LastTokens(out, Len(exprs))
        IN /\ \A i \in 1..Len(exprs) :
                 /\ (exprs[i].op = "equals" /\ exprs[i].name = "sensor"
                        /\ exprs[i].value = "temperature") => tokens[i] = "sensor=temperature"
                 /\ (exprs[i].op = "not_equals" /\ exprs[i].name = "sensor"
                        /\ exprs[i].value = "temperature") => tokens[i] = "sensor!=temperature"
                 /\ (exprs[i].op = "in_set" /\ exprs[i].name = "region"
                        /\ exprs[i].values = <<"us", "eu">>) => tokens[i] = "region=(us,eu)"
                 /\ (exprs[i].op = "not_in_set" /\ exprs[i].name = "region"
                        /\ exprs[i].values = <<"us", "eu">>) => tokens[i] = "region!=(us,eu)"
                 /\ exprs[i].op \in {"equals", "not_equals", "in_set", "not_in_set"}
                        => tokens[i] = ExpressionText(exprs[i])
           /\ (/\ Len(fCalls) = 2
               /\ fCalls[1] = FCall("equals", "sensor", "temperature", <<>>, FALSE)
               /\ fCalls[2] = FCall("in_set", "region", "", <<"us", "eu">>, FALSE))
                 => out = <<"FILTER", "sensor=temperature", "region=(us,eu)">>

\* The example of the claim.
C8_Witness ==
    /\ FilterEncoded
    /\ Len(fCalls) = 2
    /\ fCalls[1].op = "equals"
    /\ fCalls[2].op = "in_set"
    /\ out = <<"FILTER", "sensor=temperature", "region=(us,eu)">>

\* The one token a filter built by a single call encodes to, after FILTER.
SingleToken(filter) == TsFilterOptions_write_redis_args(filter, <<>>)[2]

\* C9: has_label(n) encodes to the token of not_equals(n, ""), which is n!=,
\* and not_has_label(n) to the token of equals(n, ""), which is n=.
C9_HasLabelShorthand ==
    FilterEncoded =>
        LET exprs == ExpressionCalls(fCalls)
            tokens == LastTokens(out, Len(exprs))
        IN \A i \in 1..Len(exprs) :
              /\ exprs[i].op = "has_label" =>
                    /\ tokens[i] = exprs[i].name \o "!="
                    /\ tokens[i] = SingleToken(TsFilterOptions_not_equals(
                                       TsFilterOptions_default, exprs[i].name, ""))
              /\ exprs[i].op = "not_has_label" =>
                    /\ tokens[i] = exprs[i].name \o "="
                    /\ tokens[i] = SingleToken(TsFilterOptions_equals(
                                       TsFilterOptions_default, exprs[i].name, ""))

\* has_label, not_equals with an empty value and not_has_label, side by side.
C9_Witness ==
    /\ FilterEncoded
    /\ Len(fCalls) = 3
    /\ fCalls[1].op = "has_label"
    /\ fCalls[2].op = "not_equals" /\ fCalls[2].value = ""
    /\ fCalls[3].op = "not_has_label"
    /\ out = <<"FILTER", "sensor!=", "sensor!=", "region=">>

\* ======================================================================
\* Properties of the TsDuplicatePolicy decoder (SpecDecode)
\* ======================================================================

\* A reply that carries a string: a bulk string, a status line, or OK.
StringOf(v) ==
    CASE v.t \in {"Data", "Status"} /\ v.i = 0 -> Some(v.s)
      [] v.t = "Okay" -> Some("OK")
      [] OTHER -> None

PolicyNamed(str) ==
    CASE str = "block" -> Block
      [] str = "first" -> First
      [] str = "last" -> Last
      [] str = "min" -> Min
      [] str = "max" -> Max
      [] OTHER -> Other(str)

\* C10: decoding a TsDuplicatePolicy from a string reply never fails: block,
\* first, last, min, max give Block, First, Last, Min, Max and every other
\* string s gives Other(s), s unchanged ('xyz' gives Other("xyz")).
C10_PolicyDecodeTotal ==
    (target = "decode" /\ pc = "policy_decoded" /\ IsSome(StringOf(reply))) =>
        /\ result.tag = "Ok"
        /\ result.val = PolicyNamed(Unwrap(StringOf(reply)))
        /\ reply.s = "xyz" => result.val = [tag |-> "Other", s |-> "xyz"]
        /\ reply.s = "last" => result.val = [tag |-> "Last", s |-> ""]

\* 'xyz' was decoded.
C10_Witness ==
    /\ target = "decode" /\ pc = "policy_decoded"
    /\ reply = Data("xyz")
    /\ result.tag = "Ok"
    /\ result.val = Other("xyz")

\* The five policy names the decoder knows.
KnownPolicyNames == {"block", "first", "last", "min", "max"}

\* C11 as stated: the reply string is lowercased before it is matched, so
\* LAST, Last and last all decode to Last, and only a string that is no known
\* name after lowercasing decodes to Other.
C11_CaseInsensitive ==
    (target = "decode" /\ pc = "policy_decoded" /\ IsSome(StringOf(reply))) =>
        LET lower == ToLowercase(Unwrap(StringOf(reply)))
        IN /\ result.tag = "Ok"
           /\ lower \in KnownPolicyNames => result.val = PolicyNamed(lower)
           /\ lower \notin KnownPolicyNames => result.val.tag = "Other"

\* C11 (amended): the reply string is matched as it is, case-sensitively: only
\* the exact lowercase names block, first, last, min, max decode to a variant
\* of the closed set; LAST and Last decode to Other("LAST") and Other("Last").
C11_CaseSensitive ==
    (target = "decode" /\ pc = "policy_decoded" /\ IsSome(StringOf(reply))) =>
        LET str == Unwrap(StringOf(reply))
        IN /\ result.tag = "Ok"
           /\ (result.val.tag # "Other") <=> (str \in KnownPolicyNames)
           /\ (str \notin KnownPolicyNames /\ ToLowercase(str) \in KnownPolicyNames)
                 => result.val = [tag |-> "Other", s |-> str]
           /\ str = "last" => result.val.tag = "Last"

\* LAST was decoded, to Other("LAST").
C11_Witness ==
    /\ target = "decode" /\ pc = "policy_decoded"
    /\ reply = Data("LAST")
    /\ result = Ok([tag |-> "Other", s |-> "LAST"])

KeysListed(v) == {v.b[2 * k - 1].s : k \in 1..(Len(v.b) \div 2)}

\* A key/value reply of known keys, each with the value the server reports.
KnownKeysReply(v) ==
    /\ v.t = "Bulk"
    /\ Len(v.b) % 2 = 0
    /\ \A k \in 1..(Len(v.b) \div 2) :
          /\ v.b[2 * k - 1].t = "Data"
          /\ \E j \in 1..Len(InfoKeys) : InfoKeys[j] = v.b[2 * k - 1].s
          /\ v.b[2 * k] = InfoValue(v.b[2 * k - 1].s)

\* C13: a TsInfo decodes from a key/value reply holding any subset of the
\* known keys: a field whose key is listed takes the reply's value, a field
\* whose key is not keeps its default (0, empty, None); a reply of totalSamples
\* alone gives total_samples and defaults everywhere else.
C13_InfoSubsetDecodes ==
    (target = "decode" /\ pc = "info_decoded" /\ KnownKeysReply(reply)) =>
        LET keys == KeysListed(reply)
            Has(key, value, default) == IF key \in keys THEN value ELSE default
        IN /\ result.tag = "Ok"
           /\ result.val.total_samples = Has("totalSamples", 7, 0)
           /\ result.val.memory_usage = Has("memoryUsage", 4096, 0)
           /\ result.val.first_timestamp = Has("firstTimestamp", 1, 0)
           /\ result.val.last_timestamp = Has("lastTimestamp", 60000, 0)
           /\ result.val.retention_time = Has("retentionTime", 60000, 0)
           /\ result.val.chunk_count = Has("chunkCount", 1, 0)
           /\ result.val.max_samples_per_chunk = Has("maxSamplesPerChunk", 256, 0)
           /\ result.val.chunk_size = Has("chunkSize", 8192, 0)
           /\ result.val.duplicate_policy =
                 Has("duplicatePolicy", <<[tag |-> "Last", s |-> ""]>>, <<>>)
           /\ result.val.labels =
                 Has("labels", << <<"a", "b">>, <<"component", "engine">> >>, <<>>)
           /\ result.val.source_key = Has("sourceKey", <<"src">>, <<>>)
           /\ result.val.rules = Has("rules", << <<"dest", 60000, "AVG">> >>, <<>>)
           /\ keys = {"totalSamples"} =>
                 result.val = [total_samples |-> 7, memory_usage |-> 0,
                               first_timestamp |-> 0, last_timestamp |-> 0,
                               retention_time |-> 0, chunk_count |-> 0,
                               max_samples_per_chunk |-> 0, chunk_size |-> 0,
                               duplicate_policy |-> <<>>, labels |-> <<>>,
                               source_key |-> <<>>, rules |-> <<>>]

\* A reply of totalSamples alone was decoded.
C13_Witness ==
    /\ target = "decode" /\ pc = "info_decoded"
    /\ reply = Bulk(<<Data("totalSamples"), ValInt(7)>>)
    /\ result.tag = "Ok"
    /\ result.val.total_samples = 7
    /\ result.val.labels = <<>>

\* C14: decoding a TsInfo fails only on a reply that is no sequence: such a
\* reply gives a decode error, and every sequence, of any length (odd too) and
\* of any element types, decodes to a TsInfo without an error.
C14_InfoFailsOnlyOnNonSequence ==
    (target = "decode" /\ pc = "info_decoded") =>
        /\ reply.t # "Bulk" => result.tag = "Err"
        /\ reply.t = "Bulk" => result.tag = "Ok"

\* The number a reply item carries, if it carries one.
NumberOf(v) ==
    CASE v.t = "Int" -> <<v.i>>
      [] v.t \in {"Data", "Status"} /\ v.i = 0 /\ v.s = "4096" -> <<4096>>
      [] v.t \in {"Data", "Status"} /\ v.i = 0 /\ v.s = "60000" -> <<60000>>
      [] OTHER -> <<>>

\* A well-formed element of a labels list, and of a rules list.
IsLabelPair(e) ==
    /\ e.t = "Bulk" /\ Len(e.b) >= 2
    /\ StringOf(e.b[1]) # <<>> /\ StringOf(e.b[2]) # <<>>

IsRule(e) ==
    /\ e.t = "Bulk" /\ Len(e.b) >= 3
    /\ StringOf(e.b[1]) # <<>> /\ NumberOf(e.b[2]) # <<>> /\ StringOf(e.b[3]) # <<>>

\* The pairs and the rules of the well-formed elements of a list, in its order.
LabelPairsOf(q) ==
    LET good == SelectSeq(q, IsLabelPair)
    IN [k \in 1..Len(good) |-> <<StringOf(good[k].b[1])[1], StringOf(good[k].b[2])[1]>>]

RulesOf(q) ==
    LET good == SelectSeq(q, IsRule)
    IN [k \in 1..Len(good) |->
           <<StringOf(good[k].b[1])[1], NumberOf(good[k].b[2])[1], StringOf(good[k].b[3])[1]>>]

\* A reply that lists one key, whose value is a list.
ListsOnly(v, key) ==
    v.t = "Bulk" /\ Len(v.b) = 2 /\ v.b[1] = Data(key) /\ v.b[2].t = "Bulk"

\* C15: a malformed element of the labels or of the rules list (no sequence,
\* too few items, an item that does not convert) is skipped: the decode
\* succeeds and holds exactly the well-formed elements, in their order.
C15_MalformedElementsSkipped ==
    (target = "decode" /\ pc = "info_decoded") =>
        /\ ListsOnly(reply, "labels") =>
              result.tag = "Ok" /\ result.val.labels = LabelPairsOf(reply.b[2].b)
        /\ ListsOnly(reply, "rules") =>
              result.tag = "Ok" /\ result.val.rules = RulesOf(reply.b[2].b)

\* C16: no decode panics: whatever the reply (too short, of odd length, items
\* of the wrong type), a decode returns a typed result or a decode error.
C16_NoDecodePanics ==
    (target = "decode" /\ pc \in {"policy_decoded", "info_decoded", "range_decoded",
                                  "mrange_decoded", "mget_decoded"}) =>
        result.tag \in {"Ok", "Err"}

\* The f64 a reply item carries, in tenths, if it carries one.
ValueOf(v) ==
    CASE v.t = "Int" -> <<v.i * 10>>
      [] v.t \in {"Data", "Status"} /\ v.i = 0 /\ v.s = "1" -> <<10>>
      [] v.t \in {"Data", "Status"} /\ v.i = 0 /\ v.s = "1.5" -> <<15>>
      [] v.t \in {"Data", "Status"} /\ v.i = 0 /\ v.s = "2" -> <<20>>
      [] v.t \in {"Data", "Status"} /\ v.i = 0 /\ v.s = "3" -> <<30>>
      [] OTHER -> <<>>

\* A well-formed element of a range reply: a (timestamp, value) sequence of
\* two items that convert.
IsSample(e) ==
    e.t = "Bulk" /\ Len(e.b) = 2 /\ NumberOf(e.b[1]) # <<>> /\ ValueOf(e.b[2]) # <<>>

\* The samples of a list of well-formed elements, in its order.
SamplesOf(q) == [k \in 1..Len(q) |-> <<NumberOf(q[k].b[1])[1], ValueOf(q[k].b[2])[1]>>]

\* C17: decoding a TsRange is complete or failed: when an element of the reply
\* is no two-item (timestamp, value) sequence, or an item of it does not
\* convert, the decode returns a decode error; a result never holds only some
\* of the samples.
C17_RangeCompleteOrFailed ==
    (target = "decode" /\ pc = "range_decoded" /\ reply.t = "Bulk") =>
        /\ (\E k \in 1..Len(reply.b) : ~IsSample(reply.b[k])) => result.tag = "Err"
        /\ result.tag = "Ok" => Len(result.val.values) = Len(reply.b)

\* C18: a TsRange decoded from n well-formed (timestamp, value) pairs holds
\* exactly the n samples in the order of the reply, ascending or descending as
\* replied, repeated samples kept; an empty sequence gives an empty result.
C18_RangeKeepsReplyOrder ==
    (target = "decode" /\ pc = "range_decoded" /\ reply.t = "Bulk"
        /\ \A k \in 1..Len(reply.b) : IsSample(reply.b[k])) =>
        /\ result.tag = "Ok"
        /\ Len(result.val.values) = Len(reply.b)
        /\ result.val.values = SamplesOf(reply.b)
        /\ reply.b = <<>> => result.val.values = <<>>

\* The descending reply of a reverse range was decoded, in its order.
C18_Witness ==
    /\ target = "decode" /\ pc = "range_decoded"
    /\ reply = Bulk(<<Sample(4321, "3"), Sample(321, "2"), Sample(21, "1")>>)
    /\ result.tag = "Ok"
    /\ result.val.values = << <<4321, 30>>, <<321, 20>>, <<21, 10>> >>

\* C19: a TsRange, a TsMrange or a TsMget decoded from a reply that is no
\* sequence, and an entry of a TsMrange or TsMget that is no sequence, give a
\* decode error, never an empty or default result.
C19_ShapeMismatchFails ==
    /\ (target = "decode" /\ pc \in {"range_decoded", "mrange_decoded", "mget_decoded"}
            /\ reply.t # "Bulk") => result.tag = "Err"
    /\ (target = "decode" /\ pc \in {"mrange_decoded", "mget_decoded"}
            /\ reply.t = "Bulk" /\ reply.b # <<>> /\ reply.b[1].t # "Bulk") =>
          result.tag = "Err"

\* A (key, labels, samples) entry: a string, a list, a list of samples.
IsSeriesEntry(e) ==
    /\ e.t = "Bulk" /\ Len(e.b) = 3
    /\ StringOf(e.b[1]) # <<>>
    /\ e.b[2].t = "Bulk"
    /\ e.b[3].t = "Bulk" /\ \A k \in 1..Len(e.b[3].b) : IsSample(e.b[3].b[k])

\* C20: a TsMrange decoded from (key, labels, samples) entries holds one entry
\* per element in reply order, each with its key, its label pairs in order
\* (none for an empty list, malformed pairs skipped) and its samples in order;
\* the second of the two series of the scenario holds (21,1.0), (321,2.0),
\* (4321,3.0).
C20_MrangeEntries ==
    (target = "decode" /\ pc = "mrange_decoded" /\ reply.t = "Bulk"
        /\ \A k \in 1..Len(reply.b) : IsSeriesEntry(reply.b[k])) =>
        /\ result.tag = "Ok"
        /\ result.val.values =
              [k \in 1..Len(reply.b) |->
                  [key |-> StringOf(reply.b[k].b[1])[1],
                   labels |-> LabelPairsOf(reply.b[k].b[2].b),
                   values |-> SamplesOf(reply.b[k].b[3].b)]]
        /\ (Len(reply.b) = 2 /\ reply.b[2].b[1] = Data("test_ts_mrange2")) =>
              /\ result.val.values[2].labels = <<>>
              /\ result.val.values[2].values = << <<21, 10>>, <<321, 20>>, <<4321, 30>> >>

\* C21: ts_get, synchronous or asynchronous, never returns an error: a
\* well-formed (timestamp, value) sequence of two items that convert gives
\* Some((timestamp, value)); a nil or empty reply, an error of the server and
\* a reply of any other shape give None.
C21_GetNeverFails ==
    (target = "get" /\ pc = "got") =>
        /\ result.tag = "Ok"
        /\ IsSample(reply) =>
              result.val = << <<NumberOf(reply.b[1])[1], ValueOf(reply.b[2])[1]>> >>
        /\ ~IsSample(reply) => result.val = <<>>
        /\ reply = Sample(1234, "2") => result.val = << <<1234, 20>> >>

\* The server replied that the key does not exist: None.
C21_Witness ==
    /\ target = "get" /\ pc = "got"
    /\ call.api = "sync"
    /\ reply.t = "Error"
    /\ result = [tag |-> "Ok", val |-> <<>>]

\* An entry of a TS.MGET reply: a key, a labels list of pairs (elements that
\* are no sequence are skipped), and a value slot that is absent, nil, empty
\* or one (timestamp, value) sample.
IsMgetEntry(e) ==
    /\ e.t = "Bulk" /\ Len(e.b) \in {2, 3}
    /\ StringOf(e.b[1]) # <<>>
    /\ e.b[2].t = "Bulk" =>
          \A k \in 1..Len(e.b[2].b) : e.b[2].b[k].t = "Bulk" => IsLabelPair(e.b[2].b[k])
    /\ Len(e.b) = 3 => (e.b[3] \in {Nil, Bulk(<<>>)} \/ IsSample(e.b[3]))

\* The value of an entry: that of its sample, none without one.
MgetValueOf(e) ==
    IF Len(e.b) = 3 /\ IsSample(e.b[3])
    THEN << <<NumberOf(e.b[3].b[1])[1], ValueOf(e.b[3].b[2])[1]>> >>
    ELSE <<>>

\* C22: a TsMget decoded from the entries of several series holds one entry
\* per series in reply order; an empty or absent value slot is the value None,
\* a slot of two items is Some((timestamp, value)); a series with no value
\* never makes the decode fail, and the other entries keep their values.
C22_MgetValues ==
    (target = "decode" /\ pc = "mget_decoded" /\ reply.t = "Bulk"
        /\ \A k \in 1..Len(reply.b) : IsMgetEntry(reply.b[k])) =>
        /\ result.tag = "Ok"
        /\ Len(result.val.values) = Len(reply.b)
        /\ \A k \in 1..Len(reply.b) :
              /\ result.val.values[k].key = StringOf(reply.b[k].b[1])[1]
              /\ result.val.values[k].value = MgetValueOf(reply.b[k])

\* ------------------------------------------------------- claims on commands

Sent(op) == target = "cmd" /\ pc = "sent" /\ call.op = op

\* The text of a scalar argument, written out.
ScalarText(a) ==
    CASE a.k = "int" -> DecimalText(a.n)
      [] a.k = "f64" /\ a.n = 15 -> "1.5"
      [] a.k = "str" -> a.s

\* The clauses of the options a history of builder calls leaves, without the
\* UNCOMPRESSED flag.
CompressedClausesOf(calls) ==
    RetentionClauseOf(calls) \o PolicyClauseOf(calls) \o ChunkSizeClauseOf(calls)
        \o LabelsClauseOf(PairsOfCalls(calls))

\* C23: ts_alter ignores the uncompressed flag: whatever TsOptions are passed,
\* TS.ALTER never holds the token UNCOMPRESSED, and after the key its tokens
\* are those of the same options with uncompressed false: the RETENTION,
\* DUPLICATE_POLICY, CHUNK_SIZE and LABELS clauses that are set.
C23_AlterIgnoresUncompressed ==
    Sent("ts_alter") =>
        /\ \A i \in 1..Len(out) : out[i] # "UNCOMPRESSED"
        /\ out = <<"TS.ALTER", call.key>> \o CompressedClausesOf(optCalls)
        /\ SubSeq(out, 3, Len(out))
              = TsOptions_write_redis_args([opts EXCEPT !.uncompressed = FALSE], <<>>)

\* ts_alter with options on which uncompressed(true) was called.
C23_Witness ==
    /\ Sent("ts_alter")
    /\ call.options.uncompressed
    /\ out = <<"TS.ALTER", "my_engine", "CHUNK_SIZE", "8192", "LABELS", "component", "engine">>

\* The name of each aggregation kind, written out.
AggregationNameOf(kind) ==
    CASE kind = "Avg" -> "avg"
      [] kind = "Sum" -> "sum"
      [] kind = "Min" -> "min"
      [] kind = "Max" -> "max"
      [] kind = "Range" -> "range"
      [] kind = "Count" -> "count"
      [] kind = "First" -> "first"
      [] kind = "Last" -> "last"
      [] kind = "StdP" -> "std.p"
      [] kind = "StdS" -> "std.s"
      [] kind = "VarP" -> "var.p"
      [] kind = "VarS" -> "var.s"
      [] kind = "Twa" -> "twa"

\* The commands that were given an aggregation type.
SentAggregation ==
    /\ target = "cmd" /\ pc = "sent"
    /\ \/ call.op = "ts_createrule"
       \/ call.op = "ts_range" /\ call.aggregation_type # <<>>

AggregationSent ==
    IF call.op = "ts_createrule" THEN call.aggregation_type ELSE call.aggregation_type[1]

\* C24: an encoded TsAggregationType is exactly three tokens: AGGREGATION, the
\* name of the kind (avg, sum, min, max, range, count, first, last, std.p,
\* std.s, var.p, var.s, twa) and the bucket duration the variant carries in
\* decimal; no two kinds share a name.
C24_AggregationEncoding ==
    SentAggregation =>
        LET head == IF call.op = "ts_createrule" THEN 3
                    ELSE IF call.count = <<>> THEN 4 ELSE 6
        IN /\ Len(out) = head + 3
           /\ out[head + 1] = "AGGREGATION"
           /\ out[head + 2] = AggregationNameOf(AggregationSent.kind)
           /\ out[head + 3] = DecimalText(AggregationSent.bucket)
           /\ \A kind \in AggregationKinds :
                 TsAggregationType_write_redis_args(Agg(kind, AggregationSent.bucket), <<>>)[2]
                     = out[head + 2] => kind = AggregationSent.kind

\* A rule of the sample standard deviation over buckets of 5000.
C24_Witness ==
    /\ Sent("ts_createrule")
    /\ call.aggregation_type = Agg("StdS", 5000)
    /\ out = <<"TS.CREATERULE", "my_engine", "my_engine_avg", "AGGREGATION", "std.s", "5000">>

\* C26: ts_queryindex sends only the filter expressions: TS.QUERYINDEX is the
\* command name and one token per expression in the order added, with neither
\* FILTER nor WITHLABELS, also after with_labels(true).
C26_QueryindexExpressionsOnly ==
    Sent("ts_queryindex") =>
        LET exprs == ExpressionCalls(fCalls)
        IN /\ out = <<"TS.QUERYINDEX">> \o [i \in 1..Len(exprs) |-> ExpressionText(exprs[i])]
           /\ \A i \in 1..Len(out) : out[i] \notin {"FILTER", "WITHLABELS"}

\* with_labels(true) was called on the filter options of two expressions.
C26_Witness ==
    /\ Sent("ts_queryindex")
    /\ call.filter_options.with_labels
    /\ out = <<"TS.QUERYINDEX", "sensor!=temperature", "region=(us,eu)">>

\* The COUNT and AGGREGATION clauses of the arguments, and the filter clause
\* of a history of filter calls.
CountClauseOfArg(count) ==
    IF count = <<>> THEN <<>> ELSE <<"COUNT", ScalarText(count[1])>>

AggregationClauseOfArg(agg) ==
    IF agg = <<>> THEN <<>>
    ELSE <<"AGGREGATION", AggregationNameOf(agg[1].kind), DecimalText(agg[1].bucket)>>

FilterClauseOf(calls) ==
    LET exprs == ExpressionCalls(calls)
    IN (IF WithLabelsAsked(calls) THEN <<"WITHLABELS">> ELSE <<>>) \o <<"FILTER">>
          \o [i \in 1..Len(exprs) |-> ExpressionText(exprs[i])]

\* C27: ts_range is key, from, to, then COUNT n iff a count is given, then
\* the AGGREGATION clause iff an aggregation type is given; ts_mrange is from,
\* to, COUNT n iff given, the AGGREGATION clause iff given, and the filter
\* clause ([WITHLABELS] FILTER expr...) last.
C27_RangeCommands ==
    /\ Sent("ts_range") =>
          out = <<"TS.RANGE", call.key, ScalarText(call.from), ScalarText(call.to)>>
                   \o CountClauseOfArg(call.count)
                   \o AggregationClauseOfArg(call.aggregation_type)
    /\ Sent("ts_mrange") =>
          out = <<"TS.MRANGE", ScalarText(call.from), ScalarText(call.to)>>
                   \o CountClauseOfArg(call.count)
                   \o AggregationClauseOfArg(call.aggregation_type)
                   \o FilterClauseOf(fCalls)

\* A ts_range with a count and an aggregation type.
C27_Witness ==
    /\ Sent("ts_range")
    /\ call.api = "sync"
    /\ out = <<"TS.RANGE", "my_engine", "0", "+", "COUNT", "1", "AGGREGATION", "avg", "5000">>

\* The clauses of the options a history of builder calls leaves.
OptionClausesOf(calls) ==
    RetentionClauseOf(calls) \o UncompressedClauseOf(calls) \o PolicyClauseOf(calls)
        \o ChunkSizeClauseOf(calls) \o LabelsClauseOf(PairsOfCalls(calls))

IncrementName(op) ==
    IF op \in {"ts_incrby", "ts_incrby_now", "ts_incrby_create"} THEN "TS.INCRBY"
    ELSE "TS.DECRBY"

\* C28: ts_incrby and ts_decrby of (key, ts, value) are key, value, TIMESTAMP,
\* ts, the value before the timestamp; the _create variants append the encoded
\* TsOptions after ts; the _now variants are key and value alone.
C28_IncrementCommands ==
    /\ (Sent("ts_incrby") \/ Sent("ts_decrby")) =>
          out = <<IncrementName(call.op), call.key, ScalarText(call.value), "TIMESTAMP",
                  ScalarText(call.ts)>>
    /\ (Sent("ts_incrby_create") \/ Sent("ts_decrby_create")) =>
          out = <<IncrementName(call.op), call.key, ScalarText(call.value), "TIMESTAMP",
                  ScalarText(call.ts)>> \o OptionClausesOf(optCalls)
    /\ (Sent("ts_incrby_now") \/ Sent("ts_decrby_now")) =>
          out = <<IncrementName(call.op), call.key, ScalarText(call.value)>>

\* A synchronous ts_decrby_create of 1.5 at 1234 with a retention time.
C28_Witness ==
    /\ Sent("ts_decrby_create")
    /\ call.api = "sync"
    /\ out = <<"TS.DECRBY", "my_engine", "1.5", "TIMESTAMP", "1234", "RETENTION", "60000">>

\* C29: TsCommands and AsyncTsCommands are equivalent: every operation of the
\* synchronous API exists in the asynchronous API and builds, for the same
\* arguments, the same command name and tokens, and both map the same reply to
\* the same result (ts_get resolving errors to None in both).
C29_ApisEquivalent ==
    (target = "cmd" /\ pc = "sent" /\ call.api = "sync") =>
        /\ call.op \in AsyncTsCommands_methods
        /\ AsyncTsCommands_cmd([call EXCEPT !.api = "async"]) = out
        /\ \A v \in GetReplies : AsyncTsCommands_ts_get(v) = TsCommands_ts_get(v)

\* ------------------------------------------------------- claims on Cmd::arg

OptionFields == {"retention_time", "uncompressed", "labels", "duplicate_policy", "chunk_size"}
QueryFields ==
    {"from", "to", "latest", "filter_by_ts", "filter_by_value", "count", "align",
     "aggregation_type", "bucket_timestamp", "empty"}

\* The fields that hold an Option.
OptionalFields ==
    {"retention_time", "labels", "duplicate_policy", "chunk_size", "from", "to",
     "filter_by_value", "count", "align", "aggregation_type", "bucket_timestamp"}

\* The value a recorded call gives its field.
OptionFieldOf(c) ==
    CASE c.op = "retention_time" -> <<c.num>>
      [] c.op = "uncompressed" -> c.flag
      [] c.op = "duplicate_policy" -> <<c.pol>>
      [] c.op = "chunk_size" -> <<c.num>>

QueryFieldOf(c) ==
    CASE c.op = "from" -> <<c.int>>
      [] c.op = "to" -> <<c.int>>
      [] c.op = "latest" -> c.flag
      [] c.op = "filter_by_ts" -> c.ints
      [] c.op = "filter_by_value" -> <<c.range>>
      [] c.op = "count" -> <<c.int>>
      [] c.op = "align" -> <<c.align>>
      [] c.op = "aggregation_type" -> <<c.agg>>
      [] c.op = "bucket_timestamp" -> <<c.bkt>>
      [] c.op = "empty" -> c.flag

\* C30: each scalar mutator of TsOptions and of TsRangeQuery changes its own
\* field only; the value of the call replaces the one the field held (the
\* last call wins, filter_by_ts replaces the whole list); a field that holds
\* a value is never unset.
C30_MutatorsOwnField ==
    [][target = "mut" =>
          /\ Len(optCalls') = Len(optCalls) + 1 =>
                LET c == optCalls'[Len(optCalls')]
                IN /\ query' = query
                   /\ \A f \in OptionFields \ {c.op} : opts'[f] = opts[f]
                   /\ opts'[c.op] = OptionFieldOf(c)
          /\ Len(qCalls') = Len(qCalls) + 1 =>
                LET c == qCalls'[Len(qCalls')]
                IN /\ opts' = opts
                   /\ \A f \in QueryFields \ {c.op} : query'[f] = query[f]
                   /\ query'[c.op] = QueryFieldOf(c)
          /\ \A f \in OptionalFields \cap OptionFields : opts[f] # <<>> => opts'[f] # <<>>
          /\ \A f \in OptionalFields \cap QueryFields : query[f] # <<>> => query'[f] # <<>>]_vars

\* A builder that held the timestamps 1 and 5678 after filter_by_ts([12, 123])
\* and a second from call.
C30_Witness ==
    /\ target = "mut"
    /\ Len(qCalls) = 2
    /\ qCalls[1].op = "filter_by_ts" /\ qCalls[2].op = "from" /\ qCalls[2].int = -5
    /\ query.filter_by_ts = <<12, 123>>
    /\ query.from = <<-5>>
    /\ query.to = <<10>>

====
